---- MODULE Spec2Model ----
(***************************************************************************)
(* A model of the metacat catalog engine (metacat/db/dbobjects2.py):       *)
(* the lazy file-set algebra of DBFileSet, the DNF compiler                *)
(* MetaExpressionDNF, the dataset selector of DBDataset and the            *)
(* basic-query planner.  Each part is a specification of its own over the  *)
(* module's variables; the variables of the other parts stay idle.         *)
(***************************************************************************)
EXTENDS Integers, Sequences, FiniteSets, TLC

VARIABLES
    file_sets,      \* DBFileSet.join/union/subtract: the operand list
    set_op,         \* which set operation has run ("input" before any)
    set_out,        \* the files the returned DBFileSet yields, in order
    exp,            \* MetaExpressionDNF.sql_and: the atomic predicate compiled
    asserts,        \* whether the interpreter runs assert statements (no -O)
    parts,          \* sql_and: the compiled terms (parts)
    dnf_pc,         \* "input", then "ok" or the exception sql_and raised
    fileset,        \* the DBFileSet being read (Files, Limit)
    gen,            \* <<g>>: the generator DBFileSet.__iter__ returned; <<>> before
    lf,             \* DBDataset.list_files: the dataset's rows, the call, its result
    bq,             \* the basic file query (Wheres, DatasetSelector, Limit, flags)
    q_pc,           \* "input", then the planner function that has run
    fq,             \* <<r>>: what from_basic_query did and returned
    sqlq,           \* <<r>>: what sql_for_basic_query returned
    sqlsel,         \* <<r>>: what sql_for_selector returned
    datasets,       \* the datasets table: a set of rows
    dsel,           \* the dataset selector applied to it
    sel_pc,         \* "input", then the selector function that has run
    selected,       \* the (namespace, name, metadata) rows it yielded
    tuples,         \* insert_bulk's input: its kind and its rows
    copy_threshold, \* insert_bulk's copy_threshold
    ib,             \* what insert_bulk did
    ib_pc,          \* "input", then "done"
    db,             \* the files and parent_child tables as the connection sees them
    committed,      \* the tables as of the last commit
    fop,            \* the last operation on files: its name, arguments and error
    nops,           \* the number of operations so far
    dstore,         \* the datasets table: as the connection sees it, as committed
    dsave,          \* the last DBDataset.save: the dataset saved and the error
    nsaves,         \* the number of saves so far
    ns_table,       \* the namespaces table
    users_roles,    \* the users_roles table: (username, role_name) pairs
    ns_obj,         \* <<ns>>: the DBNamespace object constructed last
    ns_res,         \* the last call on it: its name, arguments, error and result
    ns_n,           \* the number of calls so far
    pn_in,          \* parse_name's arguments: name and default_namespace
    pn_out,         \* <<r>>: which parse_name ran and what it returned or raised
    records,        \* the keys of the rows of each table that is looked up
    get_res,        \* <<r>>: the lookup that ran and what it returned or raised
    rt_table,       \* the datasets table with its creator and timestamp columns
    rt,             \* the last save and the get after it
    tx_db,          \* the rows the connection sees
    tx_committed,   \* the rows that are committed
    tx_op,          \* the last operation, whether it took part in its caller's transaction, and its outcome
    Aliases,        \* the counter of each prefix, 0 when the prefix has none
    al_pc,          \* each thread's place in alias, its prefix, the number it read, its calls so far
    al_ret,         \* the aliases returned: thread, call and alias
    wk_in,          \* the datasets table and the arguments of list_datasets
    wk,             \* the place in list_datasets and its local sets
    wk_queries,     \* how many times the children of each dataset were queried
    col_in,         \* a stored file row, the query that selects it and its flags
    col_out,        \* <<f>>: the DBFile decoded of the row returned
    jn_in,          \* the files_datasets and selected_datasets tables and the query built
    jn_out,         \* <<rows>>: the rows the store returned
    mm_table,       \* the rows of the association table, <<lookup value, reference value>>
    mm_op           \* the last many-to-many operation: its object, arguments and outcome

setVars == <<file_sets, set_op, set_out>>

dnfVars == <<exp, asserts, parts, dnf_pc>>

limVars == <<fileset, gen, lf>>

qVars == <<bq, q_pc, fq, sqlq, sqlsel>>

selVars == <<datasets, dsel, sel_pc, selected>>

bulkVars == <<tuples, copy_threshold, ib, ib_pc>>

fileVars == <<db, committed, fop, nops>>

saveVars == <<dstore, dsave, nsaves>>

nsVars == <<ns_table, users_roles, ns_obj, ns_res, ns_n>>

nameVars == <<pn_in, pn_out>>

getVars == <<records, get_res>>

roundVars == <<rt_table, rt>>

txVars == <<tx_db, tx_committed, tx_op>>

aliasVars == <<Aliases, al_pc, al_ret>>

walkVars == <<wk_in, wk, wk_queries>>

colVars == <<col_in, col_out>>

joinVars == <<jn_in, jn_out>>

mmVars == <<mm_table, mm_op>>

vars ==
    <<setVars, dnfVars, limVars, qVars, selVars, bulkVars, fileVars, saveVars, nsVars,
      nameVars, getVars, roundVars, txVars, aliasVars, walkVars, colVars, joinVars, mmVars>>

\* What each part leaves alone: the variables of the other parts.
setOthers ==
    <<dnfVars, limVars, qVars, selVars, bulkVars, fileVars, saveVars, nsVars, nameVars,
      getVars, roundVars, txVars, aliasVars, walkVars, colVars, joinVars, mmVars>>

dnfOthers ==
    <<setVars, limVars, qVars, selVars, bulkVars, fileVars, saveVars, nsVars, nameVars,
      getVars, roundVars, txVars, aliasVars, walkVars, colVars, joinVars, mmVars>>

limOthers ==
    <<setVars, dnfVars, qVars, selVars, bulkVars, fileVars, saveVars, nsVars, nameVars,
      getVars, roundVars, txVars, aliasVars, walkVars, colVars, joinVars, mmVars>>

qOthers ==
    <<setVars, dnfVars, limVars, selVars, bulkVars, fileVars, saveVars, nsVars, nameVars,
      getVars, roundVars, txVars, aliasVars, walkVars, colVars, joinVars, mmVars>>

selOthers ==
    <<setVars, dnfVars, limVars, qVars, bulkVars, fileVars, saveVars, nsVars, nameVars,
      getVars, roundVars, txVars, aliasVars, walkVars, colVars, joinVars, mmVars>>

bulkOthers ==
    <<setVars, dnfVars, limVars, qVars, selVars, fileVars, saveVars, nsVars, nameVars,
      getVars, roundVars, txVars, aliasVars, walkVars, colVars, joinVars, mmVars>>

fileOthers ==
    <<setVars, dnfVars, limVars, qVars, selVars, bulkVars, saveVars, nsVars, nameVars,
      getVars, roundVars, txVars, aliasVars, walkVars, colVars, joinVars, mmVars>>

saveOthers ==
    <<setVars, dnfVars, limVars, qVars, selVars, bulkVars, fileVars, nsVars, nameVars,
      getVars, roundVars, txVars, aliasVars, walkVars, colVars, joinVars, mmVars>>

nsOthers ==
    <<setVars, dnfVars, limVars, qVars, selVars, bulkVars, fileVars, saveVars, nameVars,
      getVars, roundVars, txVars, aliasVars, walkVars, colVars, joinVars, mmVars>>

nameOthers ==
    <<setVars, dnfVars, limVars, qVars, selVars, bulkVars, fileVars, saveVars, nsVars,
      getVars, roundVars, txVars, aliasVars, walkVars, colVars, joinVars, mmVars>>

getOthers ==
    <<setVars, dnfVars, limVars, qVars, selVars, bulkVars, fileVars, saveVars, nsVars,
      nameVars, roundVars, txVars, aliasVars, walkVars, colVars, joinVars, mmVars>>

roundOthers ==
    <<setVars, dnfVars, limVars, qVars, selVars, bulkVars, fileVars, saveVars, nsVars,
      nameVars, getVars, txVars, aliasVars, walkVars, colVars, joinVars, mmVars>>

txOthers ==
    <<setVars, dnfVars, limVars, qVars, selVars, bulkVars, fileVars, saveVars, nsVars,
      nameVars, getVars, roundVars, aliasVars, walkVars, colVars, joinVars, mmVars>>

aliasOthers ==
    <<setVars, dnfVars, limVars, qVars, selVars, bulkVars, fileVars, saveVars, nsVars,
      nameVars, getVars, roundVars, txVars, walkVars, colVars, joinVars, mmVars>>

walkOthers ==
    <<setVars, dnfVars, limVars, qVars, selVars, bulkVars, fileVars, saveVars, nsVars,
      nameVars, getVars, roundVars, txVars, aliasVars, colVars, joinVars, mmVars>>

colOthers ==
    <<setVars, dnfVars, limVars, qVars, selVars, bulkVars, fileVars, saveVars, nsVars,
      nameVars, getVars, roundVars, txVars, aliasVars, walkVars, joinVars, mmVars>>

joinOthers ==
    <<setVars, dnfVars, limVars, qVars, selVars, bulkVars, fileVars, saveVars, nsVars,
      nameVars, getVars, roundVars, txVars, aliasVars, walkVars, colVars, mmVars>>

mmOthers ==
    <<setVars, dnfVars, limVars, qVars, selVars, bulkVars, fileVars, saveVars, nsVars,
      nameVars, getVars, roundVars, txVars, aliasVars, walkVars, colVars, joinVars>>

(***************************************************************************)
(* Python values shared by the parts.                                      *)
(***************************************************************************)
\* Python's None for an optional integer: the empty tuple; <<n>> holds n.
None == <<>>

Some(n) == <<n>>

Range(s) == {s[i] : i \in DOMAIN s}

\* The sequences over S of length at most n.
SeqsUpTo(S, n) == UNION {[1..k -> S] : k \in 0..n}

(***************************************************************************)
(* limited(iterable, n): a generator.  Its state is the underlying         *)
(* sequence, how many elements were pulled from it, the remaining count n, *)
(* what it has yielded, and whether it has returned.                       *)
(***************************************************************************)
LimitedStart(iterable, n) ==
    [src |-> iterable, pulled |-> 0, n |-> n, out |-> <<>>, done |-> FALSE]

\* One pass of the for loop: pull the next element, then yield it or break.
LimitedStep(g) ==
    IF g.pulled >= Len(g.src)
    THEN [g EXCEPT !.done = TRUE]
    ELSE LET f == g.src[g.pulled + 1]
             p == [g EXCEPT !.pulled = g.pulled + 1]
         IN  IF g.n = None
             THEN [p EXCEPT !.out = Append(g.out, f)]
             ELSE IF g.n[1] # 0 \/ g.n[1] > 0
                  THEN [p EXCEPT !.out = Append(g.out, f), !.n = Some(g.n[1] - 1)]
                  ELSE [p EXCEPT !.done = TRUE]

RECURSIVE LimitedRun(_)
LimitedRun(g) == IF g.done THEN g ELSE LimitedRun(LimitedStep(g))

\* DBFileSet.__iter__ run to exhaustion: the files the set yields.
Iter(fs) == LimitedRun(LimitedStart(fs.Files, fs.Limit)).out

(***************************************************************************)
(* DBFileSet: set algebra over file IDs.                                   *)
(***************************************************************************)
WideFIDs == {"f1", "f2", "f3"}

NarrowFIDs == {"f1", "f2"}

MaxLen == 2

MaxSets == 3

\* A file object: its FID and which object it is (operand, position).
FileObj(fid, k, i) == [FID |-> fid, obj |-> <<k, i>>]

\* DBFileSet(db, files): Limit is None.
DBFileSet(files) == [Files |-> files, Limit |-> None]

\* The operand list built from the FIDs each operand holds.
MakeSets(fidss) ==
    [k \in DOMAIN fidss |->
        DBFileSet([i \in DOMAIN fidss[k] |-> FileObj(fidss[k][i], k, i)])]

\* Operand lists: up to two operands over three IDs, more over two IDs.
FidInputs ==
    UNION {[1..m -> SeqsUpTo(WideFIDs, MaxLen)] : m \in 1..2}
    \cup UNION {[1..m -> SeqsUpTo(NarrowFIDs, MaxLen)] : m \in 3..MaxSets}

FIDs(files) == {files[i].FID : i \in DOMAIN files}

JoinIdsFirstOnly(ids, sets, k) ==
    IF k > Len(sets) THEN ids ELSE ids \cap FIDs(Iter(sets[k]))

\* The loop of join: file_ids &= another_ids for file_sets[k..].
RECURSIVE JoinIds(_, _, _)
JoinIds(ids, sets, k) ==
    IF k > Len(sets) THEN ids
    ELSE JoinIds(ids \cap FIDs(Iter(sets[k])), sets, k + 1)

join(sets) ==
    LET first == sets[1] IN
    IF Len(sets) = 1 THEN first
    ELSE LET file_list == Iter(first)
             file_ids == JoinIds(FIDs(file_list), sets, 2)
         IN  DBFileSet(SelectSeq(file_list, LAMBDA f : f.FID \in file_ids))

RECURSIVE UnionGenPerList(_, _, _, _, _)
UnionGenPerList(lists, k, i, file_ids, out) ==
    IF k > Len(lists) THEN out
    ELSE LET lst == Iter(lists[k]) IN
         IF i > Len(lst) THEN UnionGenPerList(lists, k + 1, 1, {}, out)
         ELSE LET f == lst[i] IN
              IF f.FID \notin file_ids
              THEN UnionGenPerList(lists, k, i + 1, file_ids \cup {f.FID}, Append(out, f))
              ELSE UnionGenPerList(lists, k, i + 1, file_ids, out)

\* union_generator: the nested loops, at operand k, position i.
RECURSIVE UnionGen(_, _, _, _, _)
UnionGen(lists, k, i, file_ids, out) ==
    IF k > Len(lists) THEN out
    ELSE LET lst == Iter(lists[k]) IN
         IF i > Len(lst) THEN UnionGen(lists, k + 1, 1, file_ids, out)
         ELSE LET f == lst[i] IN
              IF f.FID \notin file_ids
              THEN UnionGen(lists, k, i + 1, file_ids \cup {f.FID}, Append(out, f))
              ELSE UnionGen(lists, k, i + 1, file_ids, out)

union_generator(lists) == UnionGen(lists, 1, 1, {}, <<>>)

union(sets) == DBFileSet(union_generator(sets))

subtractKeepRight(self, right) ==
    LET right_ids == FIDs(Iter(right)) IN
    DBFileSet(SelectSeq(Iter(self), LAMBDA f : f.FID \in right_ids))

subtract(self, right) ==
    LET right_ids == FIDs(Iter(right)) IN
    DBFileSet(SelectSeq(Iter(self), LAMBDA f : f.FID \notin right_ids))

SetInit ==
    /\ \E fidss \in FidInputs : file_sets = MakeSets(fidss)
    /\ set_op = "input"
    /\ set_out = <<>>

SetIdle ==
    /\ file_sets = <<>>
    /\ set_op = "idle"
    /\ set_out = <<>>

Union ==
    /\ set_op = "input"
    /\ set_op' = "union"
    /\ set_out' = Iter(union(file_sets))
    /\ UNCHANGED <<file_sets, setOthers>>

Subtract ==
    /\ set_op = "input"
    /\ Len(file_sets) = 2
    /\ set_op' = "subtract"
    /\ set_out' = Iter(subtract(file_sets[1], file_sets[2]))
    /\ UNCHANGED <<file_sets, setOthers>>

Join ==
    /\ set_op = "input"
    /\ set_op' = "join"
    /\ set_out' = Iter(join(file_sets))
    /\ UNCHANGED <<file_sets, setOthers>>

SetNext == Union \/ Subtract \/ Join

(***************************************************************************)
(* MetaExpressionDNF: the DNF compiler.  An attribute name is the sequence *)
(* of its dot-separated words with the dots kept, so that '.' in aname is  *)
(* a test on the name.  A compiled term is the SQL text in structured      *)
(* form: which template produced it and what was put in its holes.         *)
(***************************************************************************)
\* DBFile.ColumnAttributes
ColumnAttributes ==
    {<<"creator">>, <<"created_timestamp">>, <<"name">>, <<"namespace">>, <<"size">>}

HasDot(aname) == "." \in Range(aname)

\* A Python literal value: its type and value; text is TRUE once it has been
\* rendered (it is then a Python str), quotes are the quote characters
\* wrapped around it, outermost first.
IntLit(i) == [t |-> "int", i |-> i, s |-> "", text |-> FALSE, quotes |-> <<>>]

StrLit(s) == [t |-> "str", i |-> 0, s |-> s, text |-> FALSE, quotes |-> <<>>]

NoLit == [t |-> "none", i |-> 0, s |-> "", text |-> FALSE, quotes |-> <<>>]

sql_literal(v) ==
    IF v.t = "str" \/ v.text
    THEN [v EXCEPT !.text = TRUE, !.quotes = <<"'">> \o @]
    ELSE [v EXCEPT !.text = TRUE]

json_literal(v) ==
    IF v.t = "str" \/ v.text
    THEN [v EXCEPT !.text = TRUE, !.quotes = <<"\"">> \o @]
    ELSE sql_literal(v)

NoSub == [kind |-> "none", inx |-> NoLit]

\* The empty term (term = "").
NoTerm ==
    [form |-> "", name |-> <<>>, sub |-> NoSub, op |-> "", a |-> NoLit, b |-> NoLit,
     vals |-> <<>>, n |-> FALSE, nots |-> 0, neg_pred |-> FALSE, iflags |-> 0]

\* subscript, per argument shape (array_length leaves it unset; it is not read).
Subscript(arg) ==
    CASE arg.T = "array_subscript" -> [kind |-> "index", inx |-> json_literal(arg.index)]
      [] arg.T = "array_any" -> [kind |-> "any", inx |-> NoLit]
      [] OTHER -> NoSub

SqlLiterals(s) == [i \in DOMAIN s |-> sql_literal(s[i])]

JsonLiterals(s) == [i \in DOMAIN s |-> json_literal(s[i])]

RegexOps == {"~", "~*", "!~", "!~*"}

\* The body of sql_and's loop for one atomic predicate, up to "if negate":
\* the term and the value negate has after the branch.
TermInRange(e, aname, negate) ==
    LET low == json_literal(e.low)
        high == json_literal(e.high)
    IN  IF ~HasDot(aname)
        THEN [negate |-> negate,
              term |-> [NoTerm EXCEPT !.form = "col_between", !.name = aname,
                                      !.a = sql_literal(low), !.b = sql_literal(high)]]
        ELSE IF e.arg.T \in {"array_subscript", "scalar", "array_any"}
        THEN [negate |-> negate,
              term |-> [NoTerm EXCEPT !.form = "path_in_range", !.name = aname,
                                      !.sub = Subscript(e.arg), !.a = low, !.b = high]]
        ELSE [negate |-> FALSE,
              term |-> [NoTerm EXCEPT !.form = "len_between", !.name = aname,
                                      !.n = negate, !.a = low, !.b = high]]

TermNotInRange(e, aname, negate) ==
    LET low == json_literal(e.low)
        high == json_literal(e.high)
    IN  IF ~HasDot(aname)
        THEN [negate |-> negate,
              term |-> [NoTerm EXCEPT !.form = "col_between", !.name = aname, !.nots = 1,
                                      !.a = sql_literal(low), !.b = sql_literal(high)]]
        ELSE IF e.arg.T \in {"array_subscript", "scalar", "array_any"}
        THEN [negate |-> negate,
              term |-> [NoTerm EXCEPT !.form = "path_not_in_range", !.name = aname,
                                      !.sub = Subscript(e.arg), !.a = low, !.b = high]]
        ELSE [negate |-> FALSE,
              term |-> [NoTerm EXCEPT !.form = "len_between", !.name = aname,
                                      !.n = ~negate, !.a = low, !.b = high]]

TermInSet(e, aname, negate) ==
    IF ~HasDot(aname)
    THEN [negate |-> negate,
          term |-> [NoTerm EXCEPT !.form = "col_in", !.name = aname,
                                  !.vals = SqlLiterals(e.set)]]
    ELSE IF e.arg.T = "array_length"
    THEN [negate |-> FALSE,
          term |-> [NoTerm EXCEPT !.form = "len_in", !.name = aname, !.n = negate,
                                  !.vals = SqlLiterals(e.set)]]
    ELSE [negate |-> negate,
          term |-> [NoTerm EXCEPT !.form = "path_in_set", !.name = aname,
                                  !.sub = Subscript(e.arg),
                                  !.vals = JsonLiterals(e.set)]]

TermNotInSet(e, aname, negate) ==
    IF ~HasDot(aname)
    THEN [negate |-> negate,
          term |-> [NoTerm EXCEPT !.form = "col_in", !.name = aname, !.nots = 1,
                                  !.vals = SqlLiterals(e.set)]]
    ELSE IF e.arg.T = "array_length"
    THEN [negate |-> FALSE,
          term |-> [NoTerm EXCEPT !.form = "len_in", !.name = aname, !.n = ~negate,
                                  !.nots = 1, !.vals = SqlLiterals(e.set)]]
    ELSE [negate |-> negate,
          term |-> [NoTerm EXCEPT !.form = "path_not_in_set", !.name = aname,
                                  !.sub = Subscript(e.arg),
                                  !.vals = JsonLiterals(e.set)]]

TermCmpOp(e, aname, negate) ==
    LET cmp_op == IF e.op = "=" THEN "==" ELSE e.op
        sql_cmp_op == IF cmp_op = "==" THEN "=" ELSE cmp_op
        sql_value == sql_literal(e.value)
        value == json_literal(e.value)
    IN  IF ~HasDot(aname)
        THEN [negate |-> negate,
              term |-> [NoTerm EXCEPT !.form = "col_cmp", !.name = aname,
                                      !.op = sql_cmp_op, !.a = sql_value]]
        ELSE IF e.arg.T = "array_length"
        THEN [negate |-> negate,
              term |-> [NoTerm EXCEPT !.form = "len_cmp", !.name = aname,
                                      !.op = sql_cmp_op, !.a = value]]
        ELSE IF cmp_op \in RegexOps
        THEN LET ci == cmp_op \in {"~*", "!~*"} IN
             [negate |-> negate,
              term |-> [NoTerm EXCEPT !.form = "path_like_regex", !.name = aname,
                                      !.sub = Subscript(e.arg), !.op = "like_regex",
                                      !.a = value, !.neg_pred = cmp_op \in {"!~", "!~*"},
                                      \* the flags are appended to value and again after it
                                      !.iflags = IF ci THEN 2 ELSE 0]]
        ELSE [negate |-> negate,
              term |-> [NoTerm EXCEPT !.form = "path_match", !.name = aname,
                                      !.sub = Subscript(e.arg), !.op = cmp_op, !.a = value]]

\* op == "present"
PresentTerm(e) ==
    IF ~HasDot(e.name)
    THEN [NoTerm EXCEPT !.form = IF e.name \in ColumnAttributes THEN "true" ELSE "false"]
    ELSE [NoTerm EXCEPT !.form = "has_key", !.name = e.name]

\* op == "not_present"
NotPresentTerm(e) ==
    IF ~HasDot(e.name)
    THEN [NoTerm EXCEPT !.form = IF e.name \in ColumnAttributes THEN "false" ELSE "true"]
    ELSE [NoTerm EXCEPT !.form = "has_key", !.name = e.name]

\* if negate: term = f"not ({term})"
ApplyNegate(r) == IF r.negate THEN [r.term EXCEPT !.nots = @ + 1] ELSE r.term

Ops == {"cmp_op", "in_range", "in_set", "not_in_range", "not_in_set"}

ArgShapes == {"array_any", "array_subscript", "array_length", "scalar"}

\* One pass of the loop of sql_and: the exception raised ("" if none) and the
\* term appended to parts.
SqlTerm(e, asserting) ==
    CASE e.T = "present" -> [err |-> "", term |-> PresentTerm(e)]
      [] e.T = "not_present" -> [err |-> "", term |-> NotPresentTerm(e)]
      [] OTHER ->
           LET aname == e.arg.name IN
           IF asserting /\ (e.T \notin Ops \/ e.arg.T \notin ArgShapes)
           THEN [err |-> "AssertionError", term |-> NoTerm]
           ELSE IF asserting /\ ~HasDot(aname)
                      /\ (e.arg.T # "scalar" \/ aname \notin ColumnAttributes)
           THEN [err |-> "AssertionError", term |-> NoTerm]
           ELSE IF e.arg.T \notin ArgShapes
           THEN [err |-> "ValueError", term |-> NoTerm]
           ELSE [err |-> "",
                 term |-> ApplyNegate(
                    CASE e.T = "in_range" -> TermInRange(e, aname, e.neg)
                      [] e.T = "not_in_range" -> TermNotInRange(e, aname, e.neg)
                      [] e.T = "in_set" -> TermInSet(e, aname, e.neg)
                      [] e.T = "not_in_set" -> TermNotInSet(e, aname, e.neg)
                      [] e.T = "cmp_op" -> TermCmpOp(e, aname, e.neg)
                      [] OTHER -> [negate |-> e.neg, term |-> NoTerm])]

\* sql_and over an and-term: the first exception, or every term in order.
RECURSIVE SqlAndLoop(_, _, _, _)
SqlAndLoop(and_term, k, acc, asserting) ==
    IF k > Len(and_term) THEN [err |-> "", parts |-> acc]
    ELSE LET r == SqlTerm(and_term[k], asserting) IN
         IF r.err # "" THEN [err |-> r.err, parts |-> <<>>]
         ELSE SqlAndLoop(and_term, k + 1, Append(acc, r.term), asserting)

sql_and(and_term, asserting) == SqlAndLoop(and_term, 1, <<>>, asserting)

\* The atomic predicates compiled: every operator on every argument shape.
ANames == {<<"size">>, <<"run">>, <<"a", ".", "b">>}

NoArg == [T |-> "none", name |-> <<>>, index |-> NoLit]

Args ==
    {[T |-> sh, name |-> nm, index |-> IF sh = "array_subscript" THEN IntLit(0) ELSE NoLit] :
        sh \in ArgShapes, nm \in ANames}

NoAtom ==
    [T |-> "none", name |-> <<>>, arg |-> NoArg, neg |-> FALSE, op |-> "",
     value |-> NoLit, low |-> NoLit, high |-> NoLit, set |-> <<>>]

CmpOps == {"=", "==", "<", "~", "!~*"}

CmpValues == {IntLit(4242), StrLit("x")}

RangeLow == 1

RangeHigh == 2

SetPayloads == {<<IntLit(1)>>, <<IntLit(1), IntLit(3)>>}

Atoms ==
    {[NoAtom EXCEPT !.T = op, !.name = nm] : op \in {"present", "not_present"}, nm \in ANames}
    \cup {[NoAtom EXCEPT !.T = "cmp_op", !.arg = a, !.neg = ng, !.op = c, !.value = v] :
            a \in Args, ng \in BOOLEAN, c \in CmpOps, v \in CmpValues}
    \cup {[NoAtom EXCEPT !.T = op, !.arg = a, !.neg = ng,
                         !.low = IntLit(RangeLow), !.high = IntLit(RangeHigh)] :
            op \in {"in_range", "not_in_range"}, a \in Args, ng \in BOOLEAN}
    \cup {[NoAtom EXCEPT !.T = op, !.arg = a, !.neg = ng, !.set = st] :
            op \in {"in_set", "not_in_set"}, a \in Args, ng \in BOOLEAN, st \in SetPayloads}

DnfInit ==
    /\ exp \in Atoms
    /\ asserts \in BOOLEAN
    /\ parts = <<>>
    /\ dnf_pc = "input"

DnfIdle ==
    /\ exp = NoAtom
    /\ asserts = TRUE
    /\ parts = <<>>
    /\ dnf_pc = "idle"

\* sql_and([exp], table_name)
SqlAnd ==
    /\ dnf_pc = "input"
    /\ LET r == sql_and(<<exp>>, asserts) IN
          /\ dnf_pc' = IF r.err = "" THEN "ok" ELSE r.err
          /\ parts' = r.parts
    /\ UNCHANGED <<exp, asserts, dnfOthers>>

DnfNext == SqlAnd
(***************************************************************************)
(* Limits: DBFileSet.limit, the iteration of a limited set one element at  *)
(* a time, and DBDataset.list_files.                                       *)
(***************************************************************************)
MaxLimit == 2

Limits == {None} \cup {Some(n) : n \in 0..MaxLimit}

\* Python truth of an optional integer: None and 0 are false.
Truthy(n) == n # None /\ n[1] # 0

\* DBFileSet.limit(n)
limit(fs, n) == [Files |-> fs.Files, Limit |-> n]

\* DBFileSet.as_list(): list(self.Files)
as_list(fs) == fs.Files

Prefix(s, n) == [i \in 1..(IF n < Len(s) THEN n ELSE Len(s)) |-> s[i]]

\* DBDataset.list_files(limit=lim) read to the end, on a dataset holding rows:
\* the limit clause of the SQL text, the number of statements executed and
\* the files yielded.
list_files(rows, lim) ==
    LET clause == IF Truthy(lim) THEN lim ELSE None
    IN  [pc |-> "done", rows |-> rows, limit |-> lim, clause |-> clause, executes |-> 1,
         out |-> IF clause = None THEN rows ELSE Prefix(rows, clause[1])]

LimInit ==
    /\ \E fids \in SeqsUpTo(WideFIDs, MaxLen) :
          /\ fileset = DBFileSet([i \in DOMAIN fids |-> FileObj(fids[i], 1, i)])
          /\ lf = [pc |-> "input", rows |-> fileset.Files, limit |-> None,
                   clause |-> None, executes |-> 0, out |-> <<>>]
    /\ gen = <<>>

LimIdle ==
    /\ fileset = DBFileSet(<<>>)
    /\ gen = <<>>
    /\ lf = [pc |-> "idle", rows |-> <<>>, limit |-> None, clause |-> None,
             executes |-> 0, out |-> <<>>]

\* fileset = fileset.limit(n)
Limit ==
    /\ gen = <<>>
    /\ fileset.Limit = None
    /\ lf.pc = "input"
    /\ \E n \in Limits \ {None} : fileset' = limit(fileset, n)
    /\ UNCHANGED <<gen, lf, limOthers>>

\* iter(fileset): the generator is created; its body has not run yet.
IterOpen ==
    /\ gen = <<>>
    /\ lf.pc = "input"
    /\ gen' = <<LimitedStart(fileset.Files, fileset.Limit)>>
    /\ UNCHANGED <<fileset, lf, limOthers>>

\* next() on the generator.
IterNext ==
    /\ gen # <<>>
    /\ ~gen[1].done
    /\ gen' = <<LimitedStep(gen[1])>>
    /\ UNCHANGED <<fileset, lf, limOthers>>

\* list(dataset.list_files(limit=n)) on a dataset holding the files of fileset.
ListFiles ==
    /\ gen = <<>>
    /\ fileset.Limit = None
    /\ lf.pc = "input"
    /\ \E n \in Limits : lf' = list_files(lf.rows, n)
    /\ UNCHANGED <<fileset, gen, limOthers>>

LimNext == Limit \/ IterOpen \/ IterNext \/ ListFiles

(***************************************************************************)
(* The planner: MetaExpressionDNF.sql, DBDataset.sql_for_selector,         *)
(* DBFileSet.sql_for_basic_query and DBFileSet.from_basic_query.  SQL text *)
(* is kept in structured form: the clauses of the template and what was    *)
(* put in them.  A result is a record whose err names the exception raised *)
(* ("" if none).                                                           *)
(***************************************************************************)
\* An expression tree handed to MetaExpressionDNF: None, or a meta_or node
\* whose children C are meta_and nodes (each the sequence of its atoms).
ExpNone == [none |-> TRUE, C |-> <<>>]

MetaOr(or_list) == [none |-> FALSE, C |-> or_list]

\* MetaExpressionDNF.__init__: self.DNF is None or the or-list.
MetaExpressionDNF(e) == [none |-> e.none, or_list |-> e.C]

NoSql == [err |-> "", none |-> TRUE, ors |-> <<>>]

RECURSIVE SqlOrLoop(_, _, _, _)
SqlOrLoop(or_list, k, acc, asserting) ==
    IF k > Len(or_list) THEN [err |-> "", none |-> FALSE, ors |-> acc]
    ELSE LET r == sql_and(or_list[k], asserting) IN
         IF r.err # "" THEN [NoSql EXCEPT !.err = r.err]
         ELSE SqlOrLoop(or_list, k + 1, Append(acc, r.parts), asserting)

\* MetaExpressionDNF.sql: None unless self.DNF is a non-empty list.
sql(dnf, asserting) ==
    IF ~dnf.none /\ Len(dnf.or_list) > 0
    THEN SqlOrLoop(dnf.or_list, 1, <<>>, asserting)
    ELSE NoSql

\* Python truth of the string sql returned: None and "" are false.
SqlTruthy(r) ==
    ~r.none /\ ~(Len(r.ors) = 0 \/ (Len(r.ors) = 1 /\ Len(r.ors[1]) = 0))

NoWhere == [kw |-> FALSE, ors |-> <<>>]

NoSelector ==
    [none |-> TRUE, Having |-> ExpNone, Patterns |-> <<>>,
     WithChildren |-> FALSE, Recursively |-> FALSE]

NoSelectorSql == [parts |-> <<>>, where |-> NoWhere, wrapped |-> FALSE]

\* The loop of sql_for_selector over selector.Patterns: the queries united.
RECURSIVE SelectorParts(_, _, _, _)
SelectorParts(selector, k, has_where, acc) ==
    IF k > Len(selector.Patterns) THEN acc
    ELSE LET p == selector.Patterns[k]
             base == [kind |-> IF p.wildcard THEN "like"
                               ELSE IF has_where THEN "equal" ELSE "literal",
                      namespace |-> p.namespace, name |-> p.name,
                      metadata |-> IF has_where THEN "metadata" ELSE "null"]
             sub == [kind |-> IF selector.Recursively THEN "subsets" ELSE "children",
                     namespace |-> p.namespace, name |-> p.name, metadata |-> "metadata"]
         IN  SelectorParts(selector, k + 1, has_where,
                 IF selector.WithChildren THEN acc \o <<base, sub>> ELSE Append(acc, base))

\* DBDataset.sql_for_selector
sql_for_selector(selector, asserting) ==
    LET having == IF selector.Having.none THEN NoSql
                  ELSE sql(MetaExpressionDNF(selector.Having), asserting)
    IN  IF having.err # "" THEN [err |-> having.err, sql |-> NoSelectorSql]
        ELSE IF ~selector.Having.none /\ having.none
        \* "where " + None
        THEN [err |-> "TypeError", sql |-> NoSelectorSql]
        ELSE LET has_where == ~selector.Having.none IN
             [err |-> "",
              sql |-> [parts |-> SelectorParts(selector, 1, has_where, <<>>),
                       where |-> [kw |-> has_where, ors |-> having.ors],
                       wrapped |-> has_where]]

\* DBFile.attr_columns
AttrColumnNames == <<"creator", "created_timestamp", "size", "checksums">>

NoQuery ==
    [selected_datasets |-> <<>>, columns |-> <<>>, table |-> "", joined |-> FALSE,
     where |-> NoWhere, limit |-> None]

\* DBFileSet.sql_for_basic_query
sql_for_basic_query(q, asserting) ==
    LET meta == IF q.WithMeta THEN "metadata" ELSE "null as metadata"
        parents == IF q.WithProvenance THEN "parents" ELSE "null as parents"
        children == IF q.WithProvenance THEN "children" ELSE "null as children"
        table == IF q.WithProvenance THEN "files_with_provenance" ELSE "files"
        where_exp == sql(MetaExpressionDNF(q.Wheres), asserting)
        meta_where_clause == IF SqlTruthy(where_exp)
                             THEN [kw |-> TRUE, ors |-> where_exp.ors] ELSE NoWhere
        columns == <<"id", "namespace", "name", meta>> \o AttrColumnNames
                       \o <<parents, children>>
    IN  IF where_exp.err # "" THEN [err |-> where_exp.err, sql |-> NoQuery]
        ELSE IF q.DatasetSelector.none
        THEN [err |-> "",
              sql |-> [selected_datasets |-> <<>>, columns |-> columns, table |-> table,
                       joined |-> FALSE, where |-> meta_where_clause, limit |-> q.Limit]]
        ELSE LET datasets_sql == sql_for_selector(q.DatasetSelector, asserting) IN
             IF datasets_sql.err # "" THEN [err |-> datasets_sql.err, sql |-> NoQuery]
             ELSE [err |-> "",
                   sql |-> [selected_datasets |-> <<datasets_sql.sql>>, columns |-> columns,
                            table |-> table, joined |-> TRUE,
                            where |-> meta_where_clause, limit |-> q.Limit]]

\* The names class DBFileSet defines.
DBFileSetAttrs ==
    {"limit", "from_tuples", "from_id_list", "from_name_list", "__iter__", "as_list",
     "parents", "children", "_relationship", "join", "union", "subtract", "__sub__",
     "from_basic_query", "sql_for_basic_query", "sql_for_file_list", "from_sql"}

\* def list_files(self, with_metadata=False, limit=None)
ListFilesParams == [all |-> {"self", "with_metadata", "limit"}, required |-> {"self"}]

\* def union(db, file_sets), a static method
UnionParams == [all |-> {"db", "file_sets"}, required |-> {"db", "file_sets"}]

\* Python's binding of a call's arguments to a function's parameters:
\* given are the parameters the positional arguments fill, kw the keywords.
BindCall(params, given, kw) ==
    IF kw \subseteq params.all /\ params.required \subseteq (given \cup kw)
    THEN "" ELSE "TypeError"

MaxYield == 3

\* The files of the k-th dataset a selector yields.
DatasetFiles == <<<<"f1", "f2">>, <<"f2", "f3">>, <<"f1">>, <<"f3", "f1">>>>

DatasetRows(k) == [i \in DOMAIN DatasetFiles[k] |-> FileObj(DatasetFiles[k][i], k, i)]

Min(a, b) == IF a < b THEN a ELSE b

NoFq == [path |-> "", err |-> "", limit |-> None, arg |-> None, yielded |-> 0,
         executes |-> 0, out |-> <<>>]

\* DBFileSet.from_basic_query(db, q, with_metadata, limit), the selector
\* yielding the first `yielded` datasets; the file set returned is read to
\* the end.
from_basic_query(q, arg_limit, yielded) ==
    LET lim == IF arg_limit = None THEN q.Limit
               ELSE IF q.Limit # None THEN Some(Min(arg_limit[1], q.Limit[1]))
               ELSE arg_limit
        r == [NoFq EXCEPT !.limit = lim, !.arg = arg_limit, !.yielded = yielded]
    IN  IF ~q.DatasetSelector.none /\ yielded = 0
        THEN [r EXCEPT !.path = "empty", !.out = Iter(DBFileSet(<<>>))]
        ELSE IF q.DatasetSelector.none
        THEN IF "all_files" \notin DBFileSetAttrs
             THEN [r EXCEPT !.path = "all_files", !.err = "AttributeError"]
             ELSE [r EXCEPT !.path = "all_files", !.err = "NameError"]
        ELSE IF yielded = 1
        THEN LET e == BindCall(ListFilesParams, {"self"},
                               {"with_metadata", "condition", "limit", "relationship"})
                 res == list_files(DatasetRows(1), lim)
             IN  IF e # "" THEN [r EXCEPT !.path = "list_files", !.err = e]
                 ELSE [r EXCEPT !.path = "list_files", !.executes = res.executes,
                                !.out = res.out]
        ELSE LET e == BindCall(UnionParams, {"db"}, {})
                 sets == [k \in 1..yielded |-> DBFileSet(list_files(DatasetRows(k), lim).out)]
             IN  IF e # "" THEN [r EXCEPT !.path = "union", !.err = e]
                 ELSE [r EXCEPT !.path = "union", !.executes = yielded,
                                !.out = Iter(union(sets))]

\* The inputs: DNFs of at most MaxOr and-terms over two atoms that compile.
MaxOr == 1

QAtomEq ==
    [NoAtom EXCEPT !.T = "cmp_op", !.op = "==", !.value = IntLit(4242),
        !.arg = [T |-> "scalar", name |-> <<"a", ".", "b">>, index |-> NoLit]]

QAtomSize ==
    [NoAtom EXCEPT !.T = "in_range", !.low = IntLit(RangeLow), !.high = IntLit(RangeHigh),
        !.arg = [T |-> "scalar", name |-> <<"size">>, index |-> NoLit]]

QAndTerms == {<<QAtomEq>>, <<QAtomEq, QAtomSize>>}

QExps == {ExpNone} \cup {MetaOr(ol) : ol \in SeqsUpTo(QAndTerms, MaxOr)}

QPatterns ==
    {[namespace |-> "n", name |-> <<"r">>, wildcard |-> FALSE],
     [namespace |-> "n", name |-> <<"a", "%">>, wildcard |-> TRUE]}

QSelectors ==
    {NoSelector}
    \cup {[none |-> FALSE, Having |-> h, Patterns |-> <<p>>,
           WithChildren |-> wc, Recursively |-> rc] :
            h \in {ExpNone, MetaOr(<<>>), MetaOr(<<<<QAtomEq>>>>)},
            p \in QPatterns, wc \in BOOLEAN, rc \in BOOLEAN}

QInit ==
    /\ bq \in [Wheres : QExps, DatasetSelector : QSelectors, Limit : Limits,
               WithMeta : BOOLEAN, WithProvenance : BOOLEAN]
    /\ q_pc = "input"
    /\ fq = <<>>
    /\ sqlq = <<>>
    /\ sqlsel = <<>>

QIdle ==
    /\ bq = [Wheres |-> ExpNone, DatasetSelector |-> NoSelector, Limit |-> None,
             WithMeta |-> FALSE, WithProvenance |-> FALSE]
    /\ q_pc = "idle"
    /\ fq = <<>>
    /\ sqlq = <<>>
    /\ sqlsel = <<>>

\* DBFileSet.sql_for_basic_query(bq)
SqlForBasicQuery ==
    /\ q_pc = "input"
    /\ q_pc' = "sql_for_basic_query"
    /\ sqlq' = <<sql_for_basic_query(bq, asserts)>>
    /\ UNCHANGED <<bq, fq, sqlsel, qOthers>>

\* DBDataset.sql_for_selector(bq.DatasetSelector)
SqlForSelector ==
    /\ q_pc = "input"
    /\ ~bq.DatasetSelector.none
    /\ q_pc' = "sql_for_selector"
    /\ sqlsel' = <<sql_for_selector(bq.DatasetSelector, asserts)>>
    /\ UNCHANGED <<bq, fq, sqlq, qOthers>>

\* DBFileSet.from_basic_query(db, bq, with_metadata, limit)
FromBasicQuery ==
    /\ q_pc = "input"
    /\ q_pc' = "from_basic_query"
    /\ \E arg_limit \in Limits, yielded \in 0..MaxYield :
          /\ (bq.DatasetSelector.none => yielded = 0)
          /\ fq' = <<from_basic_query(bq, arg_limit, yielded)>>
    /\ UNCHANGED <<bq, sqlq, sqlsel, qOthers>>

QNext == SqlForBasicQuery \/ SqlForSelector \/ FromBasicQuery

(***************************************************************************)
(* The dataset selector on a datasets table: DBDataset.list_datasets walks *)
(* the table from Python; the text of DBDataset.sql_for_selector is run by *)
(* the store.  A dataset name is the sequence of its characters, so that   *)
(* SQL's like is a test on the name.                                       *)
(***************************************************************************)
\* s like p: % stands for any characters, _ for any one character.
RECURSIVE Like(_, _)
Like(s, p) ==
    IF p = <<>> THEN s = <<>>
    ELSE IF Head(p) = "%"
    THEN Like(s, Tail(p)) \/ (s # <<>> /\ Like(Tail(s), p))
    ELSE s # <<>> /\ (Head(p) = "_" \/ Head(p) = Head(s)) /\ Like(Tail(s), Tail(p))

\* A row of datasets; has_parent is FALSE when the parent columns are null.
Dataset(ns, name, has_parent, pns, pname) ==
    [namespace |-> ns, name |-> name, has_parent |-> has_parent,
     parent_namespace |-> pns, parent_name |-> pname]

\* A row a selector yields; metadata is "null" or the dataset's ("metadata").
Row(ns, name, metadata) == [namespace |-> ns, name |-> name, metadata |-> metadata]

\* where parent_namespace = pns and parent_name = pn, for (pns, pn) in parents
ChildrenOf(table, parents) ==
    {<<d.namespace, d.name>> : d \in
        {d \in table : d.has_parent /\ <<d.parent_namespace, d.parent_name>> \in parents}}

\* The while loop of list_datasets.
RECURSIVE Walk(_, _, _, _, _)
Walk(table, parents, found, parents_scanned, recursively) ==
    IF parents = {} THEN found
    ELSE LET this_level_children == ChildrenOf(table, parents)
             scanned == parents_scanned \cup parents
         IN  Walk(table,
                  IF recursively THEN this_level_children \ scanned ELSE {},
                  found \cup this_level_children, scanned, recursively)

\* The rows one pattern selects in the first loop of list_datasets.
PatternMatches(table, pattern) ==
    {<<d.namespace, d.name>> : d \in
        {d \in table : /\ d.namespace = pattern.namespace
                       /\ IF pattern.wildcard THEN Like(d.name, pattern.name)
                          ELSE d.name = pattern.name}}

\* DBDataset.list_datasets(db, patterns, with_children, recursively): the
\* (namespace, name) pairs of the datasets returned.
list_datasets(table, patterns, with_children, recursively) ==
    LET found == UNION {PatternMatches(table, patterns[k]) : k \in DOMAIN patterns}
    IN  IF with_children THEN Walk(table, found, found, {}, recursively) ELSE found

\* with recursive subsets as (seed union step): the least fixed point.
RECURSIVE Subsets(_, _)
Subsets(table, rows) ==
    LET more == rows \cup ChildrenOf(table, rows)
    IN  IF more = rows THEN rows ELSE Subsets(table, more)

\* where parent_namespace = '<ns>' and parent_name like '<pattern>'
ChildrenLike(table, ns, pattern) ==
    {<<d.namespace, d.name>> : d \in
        {d \in table : d.has_parent /\ d.parent_namespace = ns
                       /\ Like(d.parent_name, pattern)}}

\* The rows one of the united queries of sql_for_selector returns.
PartRows(table, part) ==
    CASE part.kind = "like" ->
           {Row(d.namespace, d.name, part.metadata) : d \in
               {d \in table : d.namespace = part.namespace /\ Like(d.name, part.name)}}
      [] part.kind = "equal" ->
           {Row(d.namespace, d.name, part.metadata) : d \in
               {d \in table : d.namespace = part.namespace /\ d.name = part.name}}
      [] part.kind = "literal" -> {Row(part.namespace, part.name, "null")}
      [] part.kind = "children" ->
           {Row(k[1], k[2], "metadata") : k \in ChildrenLike(table, part.namespace, part.name)}
      [] OTHER ->
           {Row(k[1], k[2], "metadata") : k \in
               Subsets(table, ChildrenLike(table, part.namespace, part.name))}

\* The store's answer to the text of sql_for_selector (no having clause).
RunSelectorSql(table, text) ==
    UNION {PartRows(table, text.parts[k]) : k \in DOMAIN text.parts}

Keys(rows) == {<<r.namespace, r.name>> : r \in rows}

\* The tables: any datasets among four names of one namespace, each with no
\* parent or a parent in the table (cycles included).
DatasetNames == {<<"r">>, <<"a", "_">>, <<"a", "b">>, <<"c">>}

NoName == <<>>

Tables ==
    UNION {
        {{IF par[n] = NoName THEN Dataset("n", n, FALSE, "", NoName)
                             ELSE Dataset("n", n, TRUE, "n", par[n]) : n \in S} :
            par \in [S -> S \cup {NoName}]} :
        S \in SUBSET DatasetNames}

SelPatterns ==
    {[namespace |-> "n", name |-> <<"r">>, wildcard |-> FALSE],
     [namespace |-> "n", name |-> <<"a", "_">>, wildcard |-> FALSE],
     [namespace |-> "n", name |-> <<"%">>, wildcard |-> TRUE],
     [namespace |-> "n", name |-> <<"a", "%">>, wildcard |-> TRUE]}

SelInit ==
    /\ datasets \in Tables
    /\ dsel \in {[none |-> FALSE, Having |-> ExpNone, Patterns |-> <<p>>,
                      WithChildren |-> wc, Recursively |-> rc] :
                        p \in SelPatterns, wc \in BOOLEAN, rc \in BOOLEAN}
    /\ sel_pc = "input"
    /\ selected = {}

SelIdle ==
    /\ datasets = {}
    /\ dsel = NoSelector
    /\ sel_pc = "idle"
    /\ selected = {}

\* DBDataset.list_datasets(db, Patterns, WithChildren, Recursively)
ListDatasets ==
    /\ sel_pc = "input"
    /\ sel_pc' = "list_datasets"
    /\ selected' = {Row(k[1], k[2], "metadata") : k \in
                      list_datasets(datasets, dsel.Patterns,
                                    dsel.WithChildren, dsel.Recursively)}
    /\ UNCHANGED <<datasets, dsel, selOthers>>

\* The store runs DBDataset.sql_for_selector(selector).
RunSqlForSelector ==
    /\ sel_pc = "input"
    /\ LET r == sql_for_selector(dsel, asserts) IN
          /\ sel_pc' = IF r.err = "" THEN "sql_for_selector" ELSE r.err
          /\ selected' = IF r.err = "" THEN RunSelectorSql(datasets, r.sql) ELSE {}
    /\ UNCHANGED <<datasets, dsel, selOthers>>

SelNext == ListDatasets \/ RunSqlForSelector

(***************************************************************************)
(* Bulk insert: common.insert_bulk and make_list_if_short.  A row is its   *)
(* number in the input; the input is a list, a tuple or a one-shot         *)
(* iterator over the rows.                                                 *)
(***************************************************************************)
MaxThreshold == 2

Kinds == {"list", "tuple", "iterator"}

\* The for loop of make_list_if_short over an iterator, at its i-th element.
RECURSIVE MakeListLoop(_, _, _, _)
MakeListLoop(rows, i, head, lim) ==
    IF i > Len(rows) THEN [lst |-> Some(head), it |-> None]
    ELSE LET h == Append(head, rows[i]) IN
         IF Len(h) > lim
         THEN [lst |-> None, it |-> Some(h \o SubSeq(rows, i + 1, Len(rows)))]
         ELSE MakeListLoop(rows, i + 1, h, lim)

\* make_list_if_short(iterable, limit): the pair (list or None, iterable or None).
make_list_if_short(iterable, lim) ==
    IF iterable.kind \in {"list", "tuple"} THEN [lst |-> Some(iterable.rows), it |-> None]
    ELSE IF 0 < lim THEN MakeListLoop(iterable.rows, 1, <<>>, lim)
    ELSE [lst |-> None, it |-> Some(iterable.rows)]

NoBulk ==
    [path |-> "", err |-> "", arg |-> "", table |-> "", written |-> <<>>, txn |-> ""]

\* insert_bulk(cursor, table, column_names, tuples, do_commit, copy_threshold);
\* store_ok is whether the store accepts the rows.  arg is the table asked
\* for, table the table of the statement.
insert_bulk(table, input, do_commit, threshold, store_ok) ==
    LET m == make_list_if_short(input, threshold) IN
    IF m.lst # None /\ Len(m.lst[1]) <= threshold
    THEN IF store_ok
         THEN [path |-> "executemany", err |-> "", arg |-> table, table |-> "parent_child",
               written |-> m.lst[1], txn |-> IF do_commit THEN "commit" ELSE "open"]
         ELSE [path |-> "executemany", err |-> "StoreError", arg |-> table,
               table |-> "parent_child", written |-> <<>>, txn |-> "rollback"]
    ELSE IF m.it = None
    THEN [path |-> "copy_from", err |-> "TypeError", arg |-> table, table |-> table,
          written |-> <<>>, txn |-> "open"]
    ELSE IF store_ok
    THEN [path |-> "copy_from", err |-> "", arg |-> table, table |-> table,
          written |-> m.it[1], txn |-> IF do_commit THEN "commit" ELSE "open"]
    ELSE [path |-> "copy_from", err |-> "StoreError", arg |-> table, table |-> table,
          written |-> <<>>, txn |-> "rollback"]

\* dbbase.insert_many(transaction, table, column_names, tuples, copy_threshold):
\* its first statement calls make_list_if_short, a name dbbase neither
\* defines nor imports.
insert_many(table, input, threshold) ==
    [path |-> "", err |-> "NameError", arg |-> table, table |-> "", written |-> <<>>,
     txn |-> "open"]

BulkInit ==
    /\ tuples \in {[kind |-> k, rows |-> [i \in 1..n |-> i]] :
                     k \in Kinds, n \in 0..(MaxThreshold + 2)}
    /\ copy_threshold \in 0..MaxThreshold
    /\ ib = NoBulk
    /\ ib_pc = "input"

BulkIdle ==
    /\ tuples = [kind |-> "list", rows |-> <<>>]
    /\ copy_threshold = 0
    /\ ib = NoBulk
    /\ ib_pc = "idle"

\* insert_bulk(cursor, table, column_names, tuples, do_commit, copy_threshold)
InsertBulk ==
    /\ ib_pc = "input"
    /\ ib_pc' = "done"
    /\ \E table \in {"files", "parent_child"}, do_commit \in BOOLEAN, store_ok \in BOOLEAN :
          ib' = insert_bulk(table, tuples, do_commit, copy_threshold, store_ok)
    /\ UNCHANGED <<tuples, copy_threshold, bulkOthers>>

\* insert_many(transaction, table, column_names, tuples, copy_threshold)
InsertMany ==
    /\ ib_pc = "input"
    /\ ib_pc' = "insert_many"
    /\ \E table \in {"files", "parent_child"} :
          ib' = insert_many(table, tuples, copy_threshold)
    /\ UNCHANGED <<tuples, copy_threshold, bulkOthers>>

BulkNext == InsertBulk \/ InsertMany

(***************************************************************************)
(* The files and parent_child tables and the operations of DBFile on them. *)
(* A transaction is the difference between db and committed: commit makes  *)
(* db the committed state, rollback returns db to it.                      *)
(***************************************************************************)
MaxOps == 2

FileIDs == {"f1", "f2"}

FileNames == {"n:a", "n:b"}

\* A DBFile object: its FID, its (namespace, name) and its Parents.
DBFile(fid, name, parents) == [FID |-> fid, Name |-> name, Parents |-> parents]

\* files: id is the primary key and (namespace, name) is unique.
FilesUnique(files, f) ==
    /\ \A g \in files : g.id # f.FID
    /\ \A g \in files : g.name # f.Name

\* parent_child: the pair (parent_id, child_id) is the primary key.
EdgeUnique(edges, e) == e \notin edges

EmptyStore == [files |-> {}, edges |-> {}]

\* insert into files / copy_from(files), row by row from the k-th object.
RECURSIVE InsertFiles(_, _, _)
InsertFiles(files, objs, k) ==
    IF k > Len(objs) THEN [ok |-> TRUE, files |-> files]
    ELSE IF ~FilesUnique(files, objs[k]) THEN [ok |-> FALSE, files |-> files]
    ELSE InsertFiles(files \cup {[id |-> objs[k].FID, name |-> objs[k].Name]}, objs, k + 1)

\* insert into parent_child, pair by pair; on_conflict is "on conflict do nothing".
RECURSIVE InsertEdges(_, _, _, _)
InsertEdges(edges, pairs, k, on_conflict) ==
    IF k > Len(pairs) THEN [ok |-> TRUE, edges |-> edges]
    ELSE IF EdgeUnique(edges, pairs[k])
    THEN InsertEdges(edges \cup {pairs[k]}, pairs, k + 1, on_conflict)
    ELSE IF on_conflict THEN InsertEdges(edges, pairs, k + 1, on_conflict)
    ELSE [ok |-> FALSE, edges |-> edges]

\* The outcome of an operation: the tables, the committed tables, the error.
Outcome(store, com, err) == [db |-> store, committed |-> com, err |-> err]

Commit(store, com, do_commit) == Outcome(store, IF do_commit THEN store ELSE com, "")

Rollback(com, err) == Outcome(com, com, err)

\* DBFile.create(self, creator, do_commit); io names the statement at which
\* the store fails for a reason other than uniqueness ("" for none).
create(store, com, self, do_commit, io) ==
    LET fr == InsertFiles(store.files, <<self>>, 1)
        pairs == [i \in DOMAIN self.Parents |-> <<self.Parents[i], self.FID>>]
        er == InsertEdges(store.edges, pairs, 1, FALSE)
    IN  IF io = "files" THEN Rollback(com, "StoreError")
        ELSE IF ~fr.ok THEN Rollback(com, "AlreadyExistsError")
        ELSE IF self.Parents = <<>> THEN Commit([store EXCEPT !.files = fr.files], com, do_commit)
        ELSE IF io = "edges" THEN Rollback(com, "StoreError")
        ELSE IF ~er.ok THEN Rollback(com, "AlreadyExistsError")
        ELSE Commit([files |-> fr.files, edges |-> er.edges], com, do_commit)

\* parents_csv of create_many: (parent, child) for every parent of every file.
RECURSIVE ParentsCsv(_, _)
ParentsCsv(files, k) ==
    IF k > Len(files) THEN <<>>
    ELSE [i \in DOMAIN files[k].Parents |-> <<files[k].Parents[i], files[k].FID>>]
         \o ParentsCsv(files, k + 1)

\* create_many committing the files before it copies the edges.
create_manyCommitsFiles(store, com, files, do_commit, io) ==
    LET fr == InsertFiles(store.files, files, 1)
        er == InsertEdges(store.edges, ParentsCsv(files, 1), 1, FALSE)
        filed == [store EXCEPT !.files = fr.files]
    IN  IF io = "files" THEN Rollback(com, "StoreError")
        ELSE IF ~fr.ok THEN Rollback(com, "IntegrityError")
        ELSE IF io = "edges" THEN Rollback(filed, "StoreError")
        ELSE IF ~er.ok THEN Rollback(filed, "IntegrityError")
        ELSE Commit([files |-> fr.files, edges |-> er.edges], com, do_commit)

\* DBFile.create_many(db, files, creator, do_commit)
create_many(store, com, files, do_commit, io) ==
    LET fr == InsertFiles(store.files, files, 1)
        er == InsertEdges(store.edges, ParentsCsv(files, 1), 1, FALSE)
    IN  IF io = "files" THEN Rollback(com, "StoreError")
        ELSE IF ~fr.ok THEN Rollback(com, "IntegrityError")
        ELSE IF io = "edges" THEN Rollback(com, "StoreError")
        ELSE IF ~er.ok THEN Rollback(com, "IntegrityError")
        ELSE Commit([files |-> fr.files, edges |-> er.edges], com, do_commit)

\* add_child inserting without "on conflict do nothing".
add_childPlainInsert(store, com, self_fid, child_fid, do_commit) ==
    LET er == InsertEdges(store.edges, <<<<self_fid, child_fid>>>>, 1, FALSE)
    IN  IF er.ok THEN Commit([store EXCEPT !.edges = er.edges], com, do_commit)
        ELSE Outcome(store, com, "IntegrityError")

\* DBFile.add_child(self, child, do_commit)
add_child(store, com, self_fid, child_fid, do_commit) ==
    Commit([store EXCEPT !.edges =
               InsertEdges(@, <<<<self_fid, child_fid>>>>, 1, TRUE).edges], com, do_commit)

\* DBFile.add_parents(self, parents, do_commit)
add_parents(store, com, self_fid, parents, do_commit) ==
    Commit([store EXCEPT !.edges =
               InsertEdges(@, [i \in DOMAIN parents |-> <<parents[i], self_fid>>], 1, TRUE).edges],
           com, do_commit)

\* DBFile.set_parents(self, parents, do_commit)
set_parents(store, com, self_fid, parents, do_commit) ==
    LET kept == {e \in store.edges : e[2] # self_fid}
    IN  Commit([store EXCEPT !.edges =
                   InsertEdges(kept, [i \in DOMAIN parents |-> <<parents[i], self_fid>>],
                               1, TRUE).edges],
               com, do_commit)

\* DBFile.remove_child(self, child, do_commit)
remove_child(store, com, self_fid, child_fid, do_commit) ==
    Commit([store EXCEPT !.edges = @ \ {<<self_fid, child_fid>>}], com, do_commit)

\* DBFile.add_parent(self, parent, do_commit)
add_parent(store, com, self_fid, parent_fid, do_commit) ==
    add_child(store, com, parent_fid, self_fid, do_commit)

\* The inputs: file objects, lists of parents, batches of distinct files.
ParentLists == {<<>>} \cup {<<p>> : p \in FileIDs}

FileObjs == {DBFile(f, n, ps) : f \in FileIDs, n \in FileNames, ps \in ParentLists}

Batches ==
    {<<a>> : a \in FileObjs}
    \cup {<<p[1], p[2]>> : p \in {q \in FileObjs \X FileObjs : q[1].FID # q[2].FID}}

FidLists == ParentLists \cup {<<p, q>> : p \in FileIDs, q \in FileIDs}

IoFailures == {"", "files", "edges"}

\* What is remembered of an operation: its name and error, the files and
\* the edges it was to write, whether one of its files was already stored
\* (by id or by name), and whether it repeats the previous, successful one.
FileOp(name, r, ids, edges, existed) ==
    [name |-> name, err |-> r.err, ids |-> ids, edges |-> edges, existed |-> existed,
     rep |-> fop.name = name /\ fop.ids = ids /\ fop.edges = edges /\ fop.err = ""]

Existed(store, objs) ==
    \E i \in DOMAIN objs : \E g \in store.files :
        g.id = objs[i].FID \/ g.name = objs[i].Name

NoFileOp ==
    [name |-> "", err |-> "", ids |-> {}, edges |-> {}, existed |-> FALSE, rep |-> FALSE]

FileInit ==
    /\ db = EmptyStore
    /\ committed = EmptyStore
    /\ fop = NoFileOp
    /\ nops = 0

FileIdle ==
    /\ db = EmptyStore
    /\ committed = EmptyStore
    /\ fop = NoFileOp
    /\ nops = MaxOps

\* An operation ends: the tables, the committed tables and the record of it.
Done(r, op) ==
    /\ db' = r.db
    /\ committed' = r.committed
    /\ fop' = op
    /\ nops' = nops + 1

Create ==
    /\ nops < MaxOps
    /\ \E self \in FileObjs, do_commit \in BOOLEAN, io \in IoFailures :
          Done(create(db, committed, self, do_commit, io),
               FileOp("create", create(db, committed, self, do_commit, io), {self.FID},
                      Range(ParentsCsv(<<self>>, 1)), Existed(db, <<self>>)))
    /\ UNCHANGED fileOthers

CreateMany ==
    /\ nops < MaxOps
    /\ \E files \in Batches, do_commit \in BOOLEAN, io \in IoFailures :
          Done(create_many(db, committed, files, do_commit, io),
               FileOp("create_many", create_many(db, committed, files, do_commit, io),
                      {files[i].FID : i \in DOMAIN files},
                      Range(ParentsCsv(files, 1)), Existed(db, files)))
    /\ UNCHANGED fileOthers

AddChild ==
    /\ nops < MaxOps
    /\ \E self \in FileIDs, child \in FileIDs, do_commit \in BOOLEAN :
          Done(add_child(db, committed, self, child, do_commit),
               FileOp("add_child", add_child(db, committed, self, child, do_commit), {},
                      {<<self, child>>}, FALSE))
    /\ UNCHANGED fileOthers

AddParents ==
    /\ nops < MaxOps
    /\ \E self \in FileIDs, parents \in FidLists, do_commit \in BOOLEAN :
          Done(add_parents(db, committed, self, parents, do_commit),
               FileOp("add_parents", add_parents(db, committed, self, parents, do_commit), {},
                      {<<parents[i], self>> : i \in DOMAIN parents}, FALSE))
    /\ UNCHANGED fileOthers

SetParents ==
    /\ nops < MaxOps
    /\ \E self \in FileIDs, parents \in FidLists, do_commit \in BOOLEAN :
          Done(set_parents(db, committed, self, parents, do_commit),
               FileOp("set_parents", set_parents(db, committed, self, parents, do_commit), {self},
                      {<<parents[i], self>> : i \in DOMAIN parents}, FALSE))
    /\ UNCHANGED fileOthers

AddParent ==
    /\ nops < MaxOps
    /\ \E self \in FileIDs, parent \in FileIDs, do_commit \in BOOLEAN :
          Done(add_parent(db, committed, self, parent, do_commit),
               FileOp("add_parent", add_parent(db, committed, self, parent, do_commit), {},
                      {<<parent, self>>}, FALSE))
    /\ UNCHANGED fileOthers

RemoveChild ==
    /\ nops < MaxOps
    /\ \E self \in FileIDs, child \in FileIDs, do_commit \in BOOLEAN :
          Done(remove_child(db, committed, self, child, do_commit),
               FileOp("remove_child", remove_child(db, committed, self, child, do_commit), {},
                      {<<self, child>>}, FALSE))
    /\ UNCHANGED fileOthers

FileNext ==
    \/ Create \/ CreateMany \/ AddChild \/ AddParents \/ SetParents \/ AddParent
    \/ RemoveChild

(***************************************************************************)
(* DBDataset.save on the datasets table.                                   *)
(***************************************************************************)
MaxSaves == 2

SaveNames == {<<"a">>, <<"b">>, <<"c">>}

\* The DBDataset objects: no parent, or a parent of any name.
DBDatasets ==
    {Dataset("n", n, FALSE, "", NoName) : n \in SaveNames}
    \cup {Dataset("n", n, TRUE, "n", p) : n \in SaveNames, p \in SaveNames}

\* insert into datasets ... on conflict(namespace, name) do update set
\* parent_namespace, parent_name, ...
Upsert(table, d) ==
    {e \in table : <<e.namespace, e.name>> # <<d.namespace, d.name>>} \cup {d}

\* DBDataset.save(self, do_commit)
save(store, self, do_commit) ==
    LET t == Upsert(store.db, self)
    IN  [db |-> t, committed |-> IF do_commit THEN t ELSE store.committed]

NoSave == [saved |-> FALSE, ds |-> Dataset("", NoName, FALSE, "", NoName), err |-> ""]

SaveInit ==
    /\ dstore = [db |-> {}, committed |-> {}]
    /\ dsave = NoSave
    /\ nsaves = 0

SaveIdle ==
    /\ dstore = [db |-> {}, committed |-> {}]
    /\ dsave = NoSave
    /\ nsaves = MaxSaves

Save ==
    /\ nsaves < MaxSaves
    /\ \E self \in DBDatasets, do_commit \in BOOLEAN :
          /\ dstore' = save(dstore, self, do_commit)
          /\ dsave' = [saved |-> TRUE, ds |-> self, err |-> ""]
    /\ nsaves' = nsaves + 1
    /\ UNCHANGED saveOthers

SaveNext == Save

(***************************************************************************)
(* DBNamespace: its constructor, save and create on the namespaces table,  *)
(* owners and owned_by_user with the members of a role.                    *)
(***************************************************************************)
MaxNsOps == 3

Usernames == {"u1", "u2"}

RoleNames == {"r1"}

NsNames == {"n1", "n2"}

\* DBNamespace.__init__(db, name, owner_user, owner_role): <<>> when the
\* assertion fails, else <<the object>>.
DBNamespace(name, owner_user, owner_role) ==
    IF None \in {owner_user, owner_role}
    THEN <<[Name |-> name, OwnerUser |-> owner_user, OwnerRole |-> owner_role]>>
    ELSE <<>>

\* The constraint weakened to "not both".
NotBothOwners(row) == None \in {row.owner_user, row.owner_role}

\* namespaces: exactly one of owner_user, owner_role is not null.
ExactlyOneOwner(row) == (row.owner_user = None) # (row.owner_role = None)

NsRow(self) == [name |-> self.Name, owner_user |-> self.OwnerUser, owner_role |-> self.OwnerRole]

\* DBNamespace.save: insert ... on conflict(name) do update.
ns_save(table, self) ==
    IF ExactlyOneOwner(NsRow(self))
    THEN [err |-> "", table |-> {r \in table : r.name # self.Name} \cup {NsRow(self)}]
    ELSE [err |-> "IntegrityError", table |-> table]

\* DBNamespace.create: insert.
ns_create(table, self) ==
    IF ExactlyOneOwner(NsRow(self)) /\ \A r \in table : r.name # self.Name
    THEN [err |-> "", table |-> table \cup {NsRow(self)}]
    ELSE [err |-> "IntegrityError", table |-> table]

\* DBRole(db, r).members.__contains__(user): a row of users_roles with
\* role_name = r and username = user.
members_contains(ur, role, user) == <<user, role>> \in ur

\* user in self.owners(directly)
InOwners(ur, self, user, directly) ==
    IF self.OwnerUser # None THEN user = self.OwnerUser[1]
    ELSE IF ~directly /\ self.OwnerRole # None
    THEN members_contains(ur, self.OwnerRole[1], user)
    ELSE FALSE

\* A DBUser: its Username and whether its Flags hold 'a'.
DBUser(username, admin) == [Username |-> username, admin |-> admin]

\* owned_by_user granting every admin.
owned_by_userOrAdmin(ur, self, user, directly) ==
    user.admin \/ InOwners(ur, self, user.Username, directly)

\* DBNamespace.owned_by_user(self, user, directly)
owned_by_user(ur, self, user, directly) == InOwners(ur, self, user.Username, directly)

NoNsRes ==
    [op |-> "", err |-> "", user |-> DBUser("", FALSE), directly |-> FALSE, result |-> FALSE]

NsInit ==
    /\ ns_table = {}
    /\ users_roles \in SUBSET (Usernames \X RoleNames)
    /\ ns_obj = <<>>
    /\ ns_res = NoNsRes
    /\ ns_n = 0

NsIdle ==
    /\ ns_table = {}
    /\ users_roles = {}
    /\ ns_obj = <<>>
    /\ ns_res = NoNsRes
    /\ ns_n = MaxNsOps

\* DBNamespace(db, name, owner_user, owner_role)
NsConstruct ==
    /\ ns_n < MaxNsOps
    /\ \E name \in NsNames,
          owner_user \in {None} \cup {Some(u) : u \in Usernames},
          owner_role \in {None} \cup {Some(r) : r \in RoleNames} :
          /\ ns_obj' = DBNamespace(name, owner_user, owner_role)
          /\ ns_res' = [NoNsRes EXCEPT !.op = "__init__",
                           !.err = IF ns_obj' = <<>> THEN "AssertionError" ELSE ""]
    /\ ns_n' = ns_n + 1
    /\ UNCHANGED <<ns_table, users_roles, nsOthers>>

NsSave ==
    /\ ns_n < MaxNsOps
    /\ ns_obj # <<>>
    /\ ns_table' = ns_save(ns_table, ns_obj[1]).table
    /\ ns_res' = [NoNsRes EXCEPT !.op = "save", !.err = ns_save(ns_table, ns_obj[1]).err]
    /\ ns_n' = ns_n + 1
    /\ UNCHANGED <<users_roles, ns_obj, nsOthers>>

NsCreate ==
    /\ ns_n < MaxNsOps
    /\ ns_obj # <<>>
    /\ ns_table' = ns_create(ns_table, ns_obj[1]).table
    /\ ns_res' = [NoNsRes EXCEPT !.op = "create", !.err = ns_create(ns_table, ns_obj[1]).err]
    /\ ns_n' = ns_n + 1
    /\ UNCHANGED <<users_roles, ns_obj, nsOthers>>

OwnedByUser ==
    /\ ns_n < MaxNsOps
    /\ ns_obj # <<>>
    /\ \E u \in Usernames, admin \in BOOLEAN, directly \in BOOLEAN :
          ns_res' = [op |-> "owned_by_user", err |-> "", user |-> DBUser(u, admin),
                     directly |-> directly,
                     result |-> owned_by_user(users_roles, ns_obj[1], DBUser(u, admin), directly)]
    /\ ns_n' = ns_n + 1
    /\ UNCHANGED <<ns_table, users_roles, ns_obj, nsOthers>>

NsNext == NsConstruct \/ NsSave \/ NsCreate \/ OwnedByUser

(***************************************************************************)
(* parse_name, in dbobjects2 and in common.  A string is the sequence of   *)
(* its characters; default_namespace is None or a string.                  *)
(***************************************************************************)
MaxNameLen == 3

\* The index of the first ":" of s from i on, 0 if there is none.
RECURSIVE Find(_, _)
Find(s, i) ==
    IF i > Len(s) THEN 0 ELSE IF s[i] = ":" THEN i ELSE Find(s, i + 1)

\* s.split(":", 1)
Split1(s) ==
    IF Find(s, 1) = 0 THEN <<s>>
    ELSE <<SubSeq(s, 1, Find(s, 1) - 1), SubSeq(s, Find(s, 1) + 1, Len(s))>>

\* not not default_namespace
TruthyNamespace(d) == d # None /\ d[1] # <<>>

Parsed(ns, name) == [err |-> "", ns |-> ns, name |-> name]

Raised(err) == [err |-> err, ns |-> None, name |-> <<>>]

\* dbobjects2.parse_name(name, default_namespace)
parse_name(name, default_namespace, asserting) ==
    LET words == Split1(name) IN
    IF Len(words) < 2 \/ words[1] = <<>>
    THEN IF asserting /\ ~TruthyNamespace(default_namespace) THEN Raised("AssertionError")
         ELSE Parsed(default_namespace, words[Len(words)])
    ELSE Parsed(Some(words[1]), words[2])

\* common.parse_name(name, default_namespace=None)
common_parse_name(name, default_namespace, asserting) ==
    LET words == Split1(name) IN
    IF words[1] = <<>>
    THEN IF asserting /\ ~TruthyNamespace(default_namespace) THEN Raised("AssertionError")
         ELSE Parsed(default_namespace, words[Len(words)])
    ELSE IF Len(words) = 2 THEN Parsed(Some(words[1]), words[2])
    ELSE IF asserting THEN Raised("AssertionError")
    ELSE Raised("ValueError")

NameInit ==
    /\ pn_in \in [name : SeqsUpTo({"a", ":"}, MaxNameLen),
                  default_namespace : {None, Some(<<>>), Some(<<"d">>)}]
    /\ pn_out = <<>>

NameIdle ==
    /\ pn_in = [name |-> <<>>, default_namespace |-> None]
    /\ pn_out = <<"idle">>

ParseName ==
    /\ pn_out = <<>>
    /\ \E asserting \in BOOLEAN :
          pn_out' = <<[impl |-> "dbobjects2", asserting |-> asserting,
                       r |-> parse_name(pn_in.name, pn_in.default_namespace, asserting)]>>
    /\ UNCHANGED <<pn_in, nameOthers>>

CommonParseName ==
    /\ pn_out = <<>>
    /\ \E asserting \in BOOLEAN :
          pn_out' = <<[impl |-> "common", asserting |-> asserting,
                       r |-> common_parse_name(pn_in.name, pn_in.default_namespace, asserting)]>>
    /\ UNCHANGED <<pn_in, nameOthers>>

NameNext == ParseName \/ CommonParseName

(***************************************************************************)
(* The lookups: get of DBFile, DBDataset, DBNamedQuery, DBUser,            *)
(* DBNamespace, DBRole and of the generic DBObject.  records holds, for    *)
(* each table, the keys of its rows; a key stands for the id, the name or  *)
(* the (namespace, name) pair the table is searched by.                    *)
(***************************************************************************)
LookupKinds == {"file", "dataset", "query", "user", "namespace", "role", "object"}

StoredKeys == {"a"}

LookupKeys == {"a", "b"}

\* cursor.fetchone() after a select by key: the row, or None.
fetchone(table, key) == IF key \in table THEN Some([key |-> key]) ELSE None

Returned(obj) == [err |-> "", obj |-> obj]

GetRaised(err) == [err |-> err, obj |-> None]

Object(kind, tup) == [kind |-> kind, key |-> tup.key]

\* DBFile.from_tuple(db, tup)
from_tuple(tup) == IF tup = None THEN None ELSE Some(Object("file", tup[1]))

\* DBFile.get(db, fid, namespace, name)
DBFile_get(store, fid, namespace, name) ==
    IF (fid # None) = (namespace # None \/ name # None) THEN GetRaised("AssertionError")
    ELSE IF (namespace = None) # (name = None) THEN GetRaised("AssertionError")
    ELSE LET tup == IF fid # None THEN fetchone(store["file"], fid[1])
                    ELSE fetchone(store["file"], name[1])
         IN  Returned(from_tuple(tup))

\* DBDataset.get(db, namespace, name)
DBDataset_get(store, name) ==
    LET tup == fetchone(store["dataset"], name) IN
    IF tup = None THEN Returned(None) ELSE Returned(Some(Object("dataset", tup[1])))

\* DBNamedQuery.get(db, namespace, name): the row is unpacked as it comes.
DBNamedQuery_get(store, name) ==
    LET tup == fetchone(store["query"], name) IN
    IF tup = None THEN GetRaised("TypeError") ELSE Returned(Some(Object("query", tup[1])))

\* DBUser.get(db, username)
DBUser_get(store, username) ==
    LET tup == fetchone(store["user"], username) IN
    IF tup = None THEN Returned(None) ELSE Returned(Some(Object("user", tup[1])))

\* DBNamespace.get(db, name)
DBNamespace_get(store, name) ==
    LET tup == fetchone(store["namespace"], name) IN
    IF tup = None THEN Returned(None) ELSE Returned(Some(Object("namespace", tup[1])))

\* DBRole.get(db, name)
DBRole_get(store, name) ==
    LET tup == fetchone(store["role"], name) IN
    IF tup = None THEN Returned(None) ELSE Returned(Some(Object("role", tup[1])))

\* DBObject.get(db, *pkvalues), of a class whose PK has one column
DBObject_get(store, pkvalues) ==
    IF Len(pkvalues) # 1 THEN GetRaised("AssertionError")
    ELSE LET tup == fetchone(store["object"], pkvalues[1]) IN
         IF tup = None THEN Returned(None) ELSE Returned(Some(Object("object", tup[1])))

Lookup(kind, key, r) == <<[kind |-> kind, key |-> key, r |-> r]>>

GetInit ==
    /\ records \in [LookupKinds -> SUBSET StoredKeys]
    /\ get_res = <<>>

GetIdle ==
    /\ records = [k \in LookupKinds |-> {}]
    /\ get_res = <<"idle">>

FileGet ==
    /\ get_res = <<>>
    /\ \E key \in LookupKeys, by_fid \in BOOLEAN :
          get_res' = Lookup("file", key,
                        IF by_fid THEN DBFile_get(records, Some(key), None, None)
                        ELSE DBFile_get(records, None, Some("n"), Some(key)))
    /\ UNCHANGED <<records, getOthers>>

DatasetGet ==
    /\ get_res = <<>>
    /\ \E key \in LookupKeys : get_res' = Lookup("dataset", key, DBDataset_get(records, key))
    /\ UNCHANGED <<records, getOthers>>

NamedQueryGet ==
    /\ get_res = <<>>
    /\ \E key \in LookupKeys : get_res' = Lookup("query", key, DBNamedQuery_get(records, key))
    /\ UNCHANGED <<records, getOthers>>

UserGet ==
    /\ get_res = <<>>
    /\ \E key \in LookupKeys : get_res' = Lookup("user", key, DBUser_get(records, key))
    /\ UNCHANGED <<records, getOthers>>

NamespaceGet ==
    /\ get_res = <<>>
    /\ \E key \in LookupKeys :
          get_res' = Lookup("namespace", key, DBNamespace_get(records, key))
    /\ UNCHANGED <<records, getOthers>>

RoleGet ==
    /\ get_res = <<>>
    /\ \E key \in LookupKeys : get_res' = Lookup("role", key, DBRole_get(records, key))
    /\ UNCHANGED <<records, getOthers>>

ObjectGet ==
    /\ get_res = <<>>
    /\ \E key \in LookupKeys : get_res' = Lookup("object", key, DBObject_get(records, <<key>>))
    /\ UNCHANGED <<records, getOthers>>

GetNext ==
    \/ FileGet
    \/ DatasetGet
    \/ NamedQueryGet
    \/ UserGet
    \/ NamespaceGet
    \/ RoleGet
    \/ ObjectGet

(***************************************************************************)
(* DBDataset with its creator and timestamp: save, then get through the    *)
(* same connection, and the plain form to_jsonable.  Metadata is None or a *)
(* dictionary, written as its text; the metadata column holds              *)
(* <<"json", m>>, the output of json.dumps.                                *)
(***************************************************************************)
RoundNames == {"a", "b"}

Dictionaries == {"{}", "{k: 1}"}

Creators == {None, Some("u1"), Some("u2")}

Timestamps == {None, Some(1)}

\* DBDataset(db, namespace, name, parent_namespace, parent_name), and the
\* attributes its user sets before save.
DBDataset(namespace, name, parent, metadata, creator, created_timestamp) ==
    [Namespace |-> namespace, Name |-> name, Parent |-> parent, Metadata |-> metadata,
     Creator |-> creator, CreatedTimestamp |-> created_timestamp]

\* self.Metadata or {}
OrEmpty(metadata) == IF metadata = None THEN "{}" ELSE metadata[1]

json_dumps(d) == <<"json", d>>

\* What the driver returns of a jsonb column.
json_loads(text) == text[2]

\* metacat.util.epoch: seconds since the epoch, None for None.
epoch(t) == IF t = None THEN None ELSE Some(1000 * t[1])

\* insert into datasets(...) values(...) on conflict(namespace, name) do
\* update set parent_namespace, parent_name, frozen, monotonic, metadata,
\* description.
UpsertDataset(table, row) ==
    IF \E e \in table : e.namespace = row.namespace /\ e.name = row.name
    THEN {IF e.namespace = row.namespace /\ e.name = row.name
          THEN [e EXCEPT !.parent = row.parent, !.metadata = row.metadata]
          ELSE e : e \in table}
    ELSE table \cup {row}

\* DBDataset.save(self)
dataset_save(table, self) ==
    UpsertDataset(table,
        [namespace |-> self.Namespace, name |-> self.Name, parent |-> self.Parent,
         metadata |-> json_dumps(OrEmpty(self.Metadata)),
         creator |-> self.Creator, created_timestamp |-> self.CreatedTimestamp])

\* DBDataset.get(db, namespace, name)
dataset_get(table, namespace, name) ==
    IF \E e \in table : e.namespace = namespace /\ e.name = name
    THEN LET tup == CHOOSE e \in table : e.namespace = namespace /\ e.name = name
         IN  Some(DBDataset(namespace, name, tup.parent,
                            Some(OrEmpty(Some(json_loads(tup.metadata)))),
                            tup.creator, tup.created_timestamp))
    ELSE None

\* DBDataset.to_jsonable(self)
to_jsonable(self) ==
    [namespace |-> self.Namespace, name |-> self.Name, parent |-> self.Parent,
     metadata |-> OrEmpty(self.Metadata), creator |-> self.Creator,
     created_timestamp |-> epoch(self.CreatedTimestamp)]

RoundDatasets ==
    {DBDataset("n", n, p, m, c, t) :
        n \in RoundNames, p \in {None, Some(<<"n", "a">>)},
        m \in {None} \cup {Some(d) : d \in Dictionaries}, c \in Creators, t \in Timestamps}

NoRound == [pc |-> "new", existed |-> FALSE, d |-> <<>>, got |-> <<>>]

RoundInit ==
    /\ rt_table = {}
    /\ rt = NoRound

RoundIdle ==
    /\ rt_table = {}
    /\ rt = [NoRound EXCEPT !.pc = "idle"]

RoundSave ==
    /\ rt.pc \in {"new", "got"}
    /\ \E self \in RoundDatasets :
          /\ rt_table' = dataset_save(rt_table, self)
          /\ rt' = [pc |-> "saved", d |-> Some(self), got |-> None,
                    existed |-> dataset_get(rt_table, self.Namespace, self.Name) # None]
    /\ UNCHANGED roundOthers

RoundGet ==
    /\ rt.pc = "saved"
    /\ rt' = [rt EXCEPT !.pc = "got",
                        !.got = dataset_get(rt_table, rt.d[1].Namespace, rt.d[1].Name)]
    /\ UNCHANGED <<rt_table, roundOthers>>

RoundNext == RoundSave \/ RoundGet

(***************************************************************************)
(* Who commits: DBNamespace.save, DBNamedQuery.save and a method wrapped   *)
(* by transactioned.  tx_db is what the connection sees, tx_committed what *)
(* is committed; an operation also reports the statements it issued.       *)
(***************************************************************************)
TxNames == {"a", "b"}

TxValues == {"x", "y"}

TxRow(table, name, value) == [table |-> table, name |-> name, value |-> value]

\* insert ... on conflict(key) do update set ...
TxUpsert(store, row) ==
    {r \in store : <<r.table, r.name>> # <<row.table, row.name>>} \cup {row}

Issued(store, com, err, stmts) ==
    [db |-> store, committed |-> com, err |-> err, stmts |-> stmts]

\* DBNamespace.save(self, do_commit): the text it executes ends with
\* "; commit", and a second commit follows if do_commit.  failing: the store
\* rejects the insert.
namespace_save(store, com, self, do_commit, failing) ==
    IF failing THEN Issued(store, com, "IntegrityError", <<"insert">>)
    ELSE LET t == TxUpsert(store, self)
         IN  Issued(t, t, "",
                    <<"insert", "commit">> \o (IF do_commit THEN <<"commit">> ELSE <<>>))

\* DBNamedQuery.save(self): the text it executes ends with "; commit".
query_save(store, com, self, failing) ==
    IF failing THEN Issued(store, com, "IntegrityError", <<"insert">>)
    ELSE LET t == TxUpsert(store, self) IN Issued(t, t, "", <<"insert", "commit">>)

\* transactioned(method)(first, *params, transaction): with a transaction
\* the method runs in it; without one the name HasDB is looked up, and
\* dbbase neither defines nor imports it.
transactioned(store, com, self, transaction, failing) ==
    IF transaction
    THEN IF failing THEN Issued(store, com, "IntegrityError", <<"insert">>)
         ELSE Issued(TxUpsert(store, self), com, "", <<"insert">>)
    ELSE Issued(store, com, "NameError", <<>>)

NoTx == [name |-> "", outer |-> FALSE, r |-> Issued({}, {}, "", <<>>)]

TxInit ==
    /\ tx_db = {}
    /\ tx_committed = {}
    /\ tx_op = NoTx

TxIdle ==
    /\ tx_db = {}
    /\ tx_committed = {}
    /\ tx_op = [NoTx EXCEPT !.name = "idle"]

TxDone(name, outer, r) ==
    /\ tx_db' = r.db
    /\ tx_committed' = r.committed
    /\ tx_op' = [name |-> name, outer |-> outer, r |-> r]
    /\ UNCHANGED txOthers

NamespaceSave ==
    \E n \in TxNames, v \in TxValues, do_commit \in BOOLEAN, failing \in BOOLEAN :
        TxDone("DBNamespace.save", ~do_commit,
               namespace_save(tx_db, tx_committed, TxRow("namespaces", n, v),
                              do_commit, failing))

NamedQuerySave ==
    \E n \in TxNames, v \in TxValues, failing \in BOOLEAN :
        TxDone("DBNamedQuery.save", FALSE,
               query_save(tx_db, tx_committed, TxRow("queries", n, v), failing))

Transactioned ==
    \E n \in TxNames, v \in TxValues, transaction \in BOOLEAN, failing \in BOOLEAN :
        TxDone("transactioned", transaction,
               transactioned(tx_db, tx_committed, TxRow("objects", n, v),
                             transaction, failing))

TxNext == NamespaceSave \/ NamedQuerySave \/ Transactioned

(***************************************************************************)
(* alias(prefix), called by two threads.  A call reads the counter of the  *)
(* prefix and then writes it; the other thread may run in between.         *)
(***************************************************************************)
MaxCalls == 2

Threads == {1, 2}

Prefixes == {"t", "d"}

\* Aliases.get(prefix, 1); a counter that was never written is kept as 0.
AliasesGet(prefix) == IF Aliases[prefix] = 0 THEN 1 ELSE Aliases[prefix]

\* f"{prefix}_{i}"
AliasName(prefix, i) == <<prefix, "_", i>>

AliasInit ==
    /\ Aliases = [p \in Prefixes |-> 0]
    /\ al_pc = [t \in Threads |-> [at |-> "out", prefix |-> "", i |-> 0, calls |-> 0]]
    /\ al_ret = {}

AliasIdle ==
    /\ Aliases = [p \in Prefixes |-> 0]
    /\ al_pc = [t \in Threads |-> [at |-> "out", prefix |-> "", i |-> 0, calls |-> MaxCalls]]
    /\ al_ret = {}

\* i = Aliases.get(prefix, 1)
AliasRead(t) ==
    /\ al_pc[t].at = "out"
    /\ al_pc[t].calls < MaxCalls
    /\ \E prefix \in Prefixes :
          al_pc' = [al_pc EXCEPT ![t] = [at |-> "read", prefix |-> prefix,
                                         i |-> AliasesGet(prefix),
                                         calls |-> al_pc[t].calls + 1]]
    /\ UNCHANGED <<Aliases, al_ret, aliasOthers>>

\* Aliases[prefix] = i+1; return f"{prefix}_{i}"
AliasWrite(t) ==
    /\ al_pc[t].at = "read"
    /\ Aliases' = [Aliases EXCEPT ![al_pc[t].prefix] = al_pc[t].i + 1]
    /\ al_ret' = al_ret \cup {[thread |-> t, call |-> al_pc[t].calls,
                               alias |-> AliasName(al_pc[t].prefix, al_pc[t].i)]}
    /\ al_pc' = [al_pc EXCEPT ![t] = [@ EXCEPT !.at = "out", !.prefix = "", !.i = 0]]
    /\ UNCHANGED aliasOthers

AliasNext == \E t \in Threads : AliasRead(t) \/ AliasWrite(t)

(***************************************************************************)
(* The while loop of list_datasets, one level at a time, with the number   *)
(* of times the children of each dataset are queried.                      *)
(***************************************************************************)
MaxQueries == 2

\* parents = this_level_children - parents_scanned, or set()
NextParentsRescan(this_level_children, parents_scanned, recursively) ==
    IF recursively THEN this_level_children ELSE {}

NextParents(this_level_children, parents_scanned, recursively) ==
    IF recursively THEN this_level_children \ parents_scanned ELSE {}

\* One more "select ... where parent_namespace = pns and parent_name = pn"
\* for each of parents; the count stops at MaxQueries.
Queried(queries, parents) ==
    [d \in DOMAIN queries |->
        IF d \in parents /\ queries[d] < MaxQueries THEN queries[d] + 1 ELSE queries[d]]

NoQueries == [d \in {<<"n", n>> : n \in DatasetNames} |-> 0]

NoWalk == [at |-> "call", datasets |-> {}, parents |-> {}, parents_scanned |-> {}]

WalkInit ==
    /\ wk_in \in [table : Tables, pattern : SelPatterns,
                  with_children : BOOLEAN, recursively : BOOLEAN]
    /\ wk = NoWalk
    /\ wk_queries = NoQueries

WalkIdle ==
    /\ wk_in = [table |-> {}, pattern |-> <<>>, with_children |-> FALSE,
                recursively |-> FALSE]
    /\ wk = [NoWalk EXCEPT !.at = "idle"]
    /\ wk_queries = NoQueries

\* The loop over patterns, and parents = datasets.copy() if with_children.
WalkPatterns ==
    /\ wk.at = "call"
    /\ LET datasets0 == PatternMatches(wk_in.table, wk_in.pattern) IN
          wk' = [at |-> IF wk_in.with_children THEN "while" ELSE "return",
                 datasets |-> datasets0,
                 parents |-> IF wk_in.with_children THEN datasets0 ELSE {},
                 parents_scanned |-> {}]
    /\ UNCHANGED <<wk_in, wk_queries, walkOthers>>

\* One turn of "while parents".
WalkLevel ==
    /\ wk.at = "while"
    /\ wk.parents # {}
    /\ LET this_level_children == ChildrenOf(wk_in.table, wk.parents)
           scanned == wk.parents_scanned \cup wk.parents
       IN  wk' = [at |-> "while",
                  datasets |-> wk.datasets \cup this_level_children,
                  parents |-> NextParents(this_level_children, scanned, wk_in.recursively),
                  parents_scanned |-> scanned]
    /\ wk_queries' = Queried(wk_queries, wk.parents)
    /\ UNCHANGED <<wk_in, walkOthers>>

\* The loop ends: parents is empty.
WalkEnd ==
    /\ wk.at = "while"
    /\ wk.parents = {}
    /\ wk' = [wk EXCEPT !.at = "return"]
    /\ UNCHANGED <<wk_in, wk_queries, walkOthers>>

WalkNext == WalkPatterns \/ WalkLevel \/ WalkEnd

(***************************************************************************)
(* The columns the file queries select and DBFile.from_tuple, which        *)
(* decodes a row by position.  A stored row maps each column to None (SQL  *)
(* null) or to <<value>>.                                                  *)
(***************************************************************************)
FileColumns ==
    <<"id", "namespace", "name", "metadata">> \o AttrColumnNames \o <<"parents", "children">>

Builders == {"sql_for_basic_query", "sql_for_file_list", "_relationship", "get"}

\* The select list of sql_for_file_list (ids_part and specs_part alike).
sql_for_file_list(with_meta, with_provenance) ==
    LET meta == IF with_meta THEN "metadata" ELSE "null as metadata"
        prov_columns == IF with_provenance THEN <<"parents", "children">>
                        ELSE <<"null as parents", "null as children">>
    IN  <<"id", "namespace", "name", meta>> \o prov_columns \o AttrColumnNames

\* The select list of DBFileSet._relationship.
relationship(with_metadata, with_provenance) ==
    LET meta == IF ~with_metadata THEN "null as metadata" ELSE "metadata"
        provenance == IF ~with_provenance THEN <<"null as parents", "null as children">>
                      ELSE <<"parents", "children">>
    IN  <<"id", "namespace", "name", meta>> \o AttrColumnNames \o provenance

\* The select list of DBFile.get.
get_columns(with_metadata) ==
    LET fetch_meta == IF with_metadata THEN "metadata" ELSE "null"
    IN  <<"id", "namespace", "name", fetch_meta>> \o AttrColumnNames

\* The select list of the builder.
SelectList(builder, with_meta, with_provenance) ==
    CASE builder = "sql_for_basic_query" ->
            sql_for_basic_query([Wheres |-> ExpNone, DatasetSelector |-> NoSelector,
                                 Limit |-> None, WithMeta |-> with_meta,
                                 WithProvenance |-> with_provenance], TRUE).sql.columns
      [] builder = "sql_for_file_list" -> sql_for_file_list(with_meta, with_provenance)
      [] builder = "_relationship" -> relationship(with_meta, with_provenance)
      [] OTHER -> get_columns(with_meta)

\* The tuple the store returns of a row for a select list.
Fetch(columns, row) ==
    [i \in DOMAIN columns |->
        IF columns[i] \in DOMAIN row THEN row[columns[i]] ELSE None]

FileRecord(fid, namespace, name, metadata, size, checksums, parents, children) ==
    [FID |-> fid, Namespace |-> namespace, Name |-> name, Metadata |-> metadata,
     Creator |-> None, CreatedTimestamp |-> None, Size |-> size, Checksums |-> checksums,
     Parents |-> parents, Children |-> children]

\* DBFile.from_tuple(db, tup): the unpackings it tries, longest first.
file_from_tuple(tup) ==
    IF Len(tup) = 10
    THEN FileRecord(tup[1], tup[2], tup[3], tup[4], tup[7], tup[8], tup[9], tup[10])
    ELSE IF Len(tup) = 8
    THEN FileRecord(tup[1], tup[2], tup[3], tup[4], tup[7], tup[8], None, None)
    ELSE IF Len(tup) = 4
    THEN FileRecord(tup[1], tup[2], tup[3], tup[4], None, None, None, None)
    ELSE FileRecord(tup[1], tup[2], tup[3], None, None, None, None, None)

\* The stored rows: every column holds a value of its own, or null where
\* the column may be null.
StoredRows ==
    {[c \in Range(FileColumns) |->
        IF c \in nulls THEN None ELSE Some(<<c, v>>)] :
        nulls \in SUBSET {"size", "creator", "checksums"}, v \in {1, 2}}

ColInit ==
    /\ col_in \in [row : StoredRows, builder : Builders,
                   with_meta : BOOLEAN, with_provenance : BOOLEAN]
    /\ col_out = <<>>

ColIdle ==
    /\ col_in = [row |-> <<>>, builder |-> "", with_meta |-> FALSE,
                 with_provenance |-> FALSE]
    /\ col_out = <<"idle">>

\* The query of the builder is run and its row decoded.
FromTuple ==
    /\ col_out = <<>>
    /\ col_out' = <<file_from_tuple(Fetch(SelectList(col_in.builder, col_in.with_meta,
                                                     col_in.with_provenance),
                                          col_in.row))>>
    /\ UNCHANGED <<col_in, colOthers>>

ColNext == FromTuple

(***************************************************************************)
(* The query of sql_for_basic_query, run by the store on the files,        *)
(* files_datasets and selected_datasets tables.  A row of the result is    *)
(* named by the rows it joins: <<file>> or <<file, dataset>>; the file     *)
(* query selects the file's columns of it.                                 *)
(***************************************************************************)
JoinFiles == {"f1", "f2"}

JoinDatasets == {"d1", "d2"}

JoinLimits == {None, Some(0), Some(1), Some(2)}

\* from files f inner join files_datasets fd on fd.file_id = f.id
\*     inner join selected_datasets on (namespace, name) = fd's dataset
JoinedRows(query, files, files_datasets, selected_datasets) ==
    IF query.joined
    THEN {<<fd[1], fd[2]>> : fd \in
            {fd \in files_datasets : fd[1] \in files /\ fd[2] \in selected_datasets}}
    ELSE {<<f>> : f \in files}

\* limit n: the results the store may return, any n of the rows.
Limited(rows, lim) ==
    IF lim = None THEN {rows}
    ELSE {r \in SUBSET rows : Cardinality(r) = Min(lim[1], Cardinality(rows))}

\* A selector of all datasets a% of namespace n.
JoinSelector ==
    [none |-> FALSE, Having |-> ExpNone,
     Patterns |-> <<[namespace |-> "n", name |-> <<"a", "%">>, wildcard |-> TRUE]>>,
     WithChildren |-> FALSE, Recursively |-> FALSE]

\* DBFileSet.sql_for_basic_query(query) of a query without a file filter.
BasicQuery(selector, lim) ==
    sql_for_basic_query([Wheres |-> ExpNone, DatasetSelector |-> selector, Limit |-> lim,
                         WithMeta |-> FALSE, WithProvenance |-> FALSE], TRUE).sql

JoinInit ==
    /\ jn_in \in [files_datasets : SUBSET (JoinFiles \X JoinDatasets),
                  selected_datasets : SUBSET JoinDatasets,
                  query : {BasicQuery(s, l) : s \in {NoSelector, JoinSelector},
                                             l \in JoinLimits}]
    /\ jn_out = <<>>

JoinIdle ==
    /\ jn_in = [files_datasets |-> {}, selected_datasets |-> {},
                query |-> BasicQuery(NoSelector, None)]
    /\ jn_out = <<{}>>

\* The store runs the text of DBFileSet.sql_for_basic_query.
RunBasicQuery ==
    /\ jn_out = <<>>
    /\ \E rows \in Limited(JoinedRows(jn_in.query, JoinFiles, jn_in.files_datasets,
                                      jn_in.selected_datasets), jn_in.query.limit) :
          jn_out' = <<rows>>
    /\ UNCHANGED <<jn_in, joinOthers>>

JoinNext == RunBasicQuery

(***************************************************************************)
(* The many-to-many associations: common._DBManyToMany, dbbase's           *)
(* DBManyToMany and dbobjects2._DBManyToMany over one association table    *)
(* with one lookup column and one reference column.  mm_table holds the    *)
(* rows <<lookup value, reference value>>.                                 *)
(***************************************************************************)
M2MVariants == {"common._DBManyToMany", "dbbase.DBManyToMany", "dbobjects2._DBManyToMany"}

M2MKeys == {"k1", "k2"}

M2MRefs == {"r1", "r2"}

M2MLists == {<<>>} \cup {<<v>> : v \in M2MRefs} \cup {<<v, w>> : v, w \in M2MRefs}

\* The attributes __init__ gives the object.
Attributes(variant) ==
    IF variant = "dbobjects2._DBManyToMany"
    THEN {"DB", "Table", "FixedColumn", "FixedValue", "Where", "VarColumns"}
    ELSE {"DB", "Table", "LookupValues", "Where", "ReferenceColumns"}

\* The columns add and contains count their arguments against.
Columns(variant) ==
    IF variant = "dbobjects2._DBManyToMany" THEN "VarColumns" ELSE "ReferenceColumns"

M2MResult(table, err, ret) == [table |-> table, err |-> err, ret |-> ret]

\* self.Where: the rows of this object.
Where(table, key) == {row \in table : row[1] = key}

\* list(self): the reference values of the rows of this object.
m2m_list(table, key) == {row[2] : row \in Where(table, key)}

\* add(self, *vals): insert ... on conflict do nothing.
add(variant, table, key, vals) ==
    IF Columns(variant) \notin Attributes(variant)
    THEN M2MResult(table, "AttributeError", FALSE)
    ELSE IF Len(vals) # 1 THEN M2MResult(table, "AssertionError", FALSE)
    ELSE M2MResult(table \cup {<<key, vals[1]>>}, "", FALSE)

\* contains(self, *vals): is there a row of this object with these values.
contains(variant, table, key, vals) ==
    IF Columns(variant) \notin Attributes(variant)
    THEN M2MResult(table, "AttributeError", FALSE)
    ELSE IF Len(vals) # 1 THEN M2MResult(table, "AssertionError", FALSE)
    ELSE M2MResult(table, "", \E row \in Where(table, key) : row[2] = vals[1])

\* remove(self, *vals, all=False): "assert all or len(vals) ==
\* len(self.VarColumns)" reads self.VarColumns unless all is given.
remove(variant, table, key, vals, all) ==
    IF ~all /\ "VarColumns" \notin Attributes(variant)
    THEN M2MResult(table, "AttributeError", FALSE)
    ELSE IF ~all /\ Len(vals) # 1 THEN M2MResult(table, "AssertionError", FALSE)
    ELSE M2MResult(table \ {row \in Where(table, key) : all \/ row[2] = vals[1]},
                   "", FALSE)

\* The loop of set: add each element of lst in turn.
RECURSIVE AddEach(_, _, _, _)
AddEach(variant, r, key, lst) ==
    IF lst = <<>> \/ r.err # "" THEN r
    ELSE AddEach(variant, add(variant, r.table, key, <<Head(lst)>>), key, Tail(lst))

\* set(self, lst): begin, remove(all=True), add each, commit.
set(variant, table, key, lst) ==
    LET removed == remove(variant, table, key, <<>>, TRUE)
    IN  IF removed.err # "" THEN M2MResult(table, removed.err, FALSE)
        ELSE LET added == AddEach(variant, removed, key, lst)
             IN  IF added.err # "" THEN M2MResult(table, added.err, FALSE) ELSE added

NoM2M ==
    [variant |-> "", op |-> "none", key |-> "", vals |-> <<>>, before |-> {},
     err |-> "", ret |-> FALSE]

MmInit ==
    /\ mm_table = {}
    /\ mm_op = NoM2M

MmIdle ==
    /\ mm_table = {}
    /\ mm_op = NoM2M

M2MDone(variant, op, key, vals, r) ==
    /\ mm_table' = r.table
    /\ mm_op' = [variant |-> variant, op |-> op, key |-> key, vals |-> vals,
                 before |-> mm_table, err |-> r.err, ret |-> r.ret]
    /\ UNCHANGED mmOthers

M2MAdd ==
    \E variant \in M2MVariants, key \in M2MKeys, v \in M2MRefs :
        M2MDone(variant, "add", key, <<v>>, add(variant, mm_table, key, <<v>>))

M2MContains ==
    \E variant \in M2MVariants, key \in M2MKeys, v \in M2MRefs :
        M2MDone(variant, "contains", key, <<v>>, contains(variant, mm_table, key, <<v>>))

M2MRemove ==
    \E variant \in M2MVariants, key \in M2MKeys, v \in M2MRefs :
        M2MDone(variant, "remove", key, <<v>>,
                remove(variant, mm_table, key, <<v>>, FALSE))

M2MSet ==
    \E variant \in M2MVariants, key \in M2MKeys, lst \in M2MLists :
        M2MDone(variant, "set", key, lst, set(variant, mm_table, key, lst))

MmNext == M2MAdd \/ M2MContains \/ M2MRemove \/ M2MSet

(***************************************************************************)
(* The specifications: one part runs, the others are idle.                 *)
(***************************************************************************)
InitSet ==
    SetInit /\ DnfIdle /\ LimIdle /\ QIdle /\ SelIdle /\ BulkIdle /\ FileIdle
        /\ SaveIdle /\ NsIdle /\ NameIdle /\ GetIdle /\ RoundIdle /\ TxIdle /\ AliasIdle
        /\ WalkIdle /\ ColIdle /\ JoinIdle /\ MmIdle

SpecSet == InitSet /\ [][SetNext]_vars

InitDNF ==
    DnfInit /\ SetIdle /\ LimIdle /\ QIdle /\ SelIdle /\ BulkIdle /\ FileIdle
        /\ SaveIdle /\ NsIdle /\ NameIdle /\ GetIdle /\ RoundIdle /\ TxIdle /\ AliasIdle
        /\ WalkIdle /\ ColIdle /\ JoinIdle /\ MmIdle

SpecDNF == InitDNF /\ [][DnfNext]_vars

InitLimit ==
    LimInit /\ SetIdle /\ DnfIdle /\ QIdle /\ SelIdle /\ BulkIdle /\ FileIdle
        /\ SaveIdle /\ NsIdle /\ NameIdle /\ GetIdle /\ RoundIdle /\ TxIdle /\ AliasIdle
        /\ WalkIdle /\ ColIdle /\ JoinIdle /\ MmIdle

SpecLimit == InitLimit /\ [][LimNext]_vars

InitQuery ==
    QInit /\ SetIdle /\ DnfIdle /\ LimIdle /\ SelIdle /\ BulkIdle /\ FileIdle
        /\ SaveIdle /\ NsIdle /\ NameIdle /\ GetIdle /\ RoundIdle /\ TxIdle /\ AliasIdle
        /\ WalkIdle /\ ColIdle /\ JoinIdle /\ MmIdle

SpecQuery == InitQuery /\ [][QNext]_vars

InitSel ==
    SelInit /\ SetIdle /\ DnfIdle /\ LimIdle /\ QIdle /\ BulkIdle /\ FileIdle
        /\ SaveIdle /\ NsIdle /\ NameIdle /\ GetIdle /\ RoundIdle /\ TxIdle /\ AliasIdle
        /\ WalkIdle /\ ColIdle /\ JoinIdle /\ MmIdle

SpecSel == InitSel /\ [][SelNext]_vars

InitBulk ==
    BulkInit /\ SetIdle /\ DnfIdle /\ LimIdle /\ QIdle /\ SelIdle /\ FileIdle
        /\ SaveIdle /\ NsIdle /\ NameIdle /\ GetIdle /\ RoundIdle /\ TxIdle /\ AliasIdle
        /\ WalkIdle /\ ColIdle /\ JoinIdle /\ MmIdle

SpecBulk == InitBulk /\ [][BulkNext]_vars

InitFile ==
    FileInit /\ SetIdle /\ DnfIdle /\ LimIdle /\ QIdle /\ SelIdle /\ BulkIdle
        /\ SaveIdle /\ NsIdle /\ NameIdle /\ GetIdle /\ RoundIdle /\ TxIdle /\ AliasIdle
        /\ WalkIdle /\ ColIdle /\ JoinIdle /\ MmIdle

SpecFile == InitFile /\ [][FileNext]_vars

InitSave ==
    SaveInit /\ SetIdle /\ DnfIdle /\ LimIdle /\ QIdle /\ SelIdle /\ BulkIdle
        /\ FileIdle /\ NsIdle /\ NameIdle /\ GetIdle /\ RoundIdle /\ TxIdle /\ AliasIdle
        /\ WalkIdle /\ ColIdle /\ JoinIdle /\ MmIdle

SpecSave == InitSave /\ [][SaveNext]_vars

InitNs ==
    NsInit /\ SetIdle /\ DnfIdle /\ LimIdle /\ QIdle /\ SelIdle /\ BulkIdle
        /\ FileIdle /\ SaveIdle /\ NameIdle /\ GetIdle /\ RoundIdle /\ TxIdle /\ AliasIdle
        /\ WalkIdle /\ ColIdle /\ JoinIdle /\ MmIdle

SpecNs == InitNs /\ [][NsNext]_vars

InitName ==
    NameInit /\ SetIdle /\ DnfIdle /\ LimIdle /\ QIdle /\ SelIdle /\ BulkIdle
        /\ FileIdle /\ SaveIdle /\ NsIdle /\ GetIdle /\ RoundIdle /\ TxIdle /\ AliasIdle
        /\ WalkIdle /\ ColIdle /\ JoinIdle /\ MmIdle

SpecName == InitName /\ [][NameNext]_vars

InitGet ==
    GetInit /\ SetIdle /\ DnfIdle /\ LimIdle /\ QIdle /\ SelIdle /\ BulkIdle
        /\ FileIdle /\ SaveIdle /\ NsIdle /\ NameIdle /\ RoundIdle /\ TxIdle /\ AliasIdle
        /\ WalkIdle /\ ColIdle /\ JoinIdle /\ MmIdle

SpecGet == InitGet /\ [][GetNext]_vars

InitRound ==
    RoundInit /\ SetIdle /\ DnfIdle /\ LimIdle /\ QIdle /\ SelIdle /\ BulkIdle
        /\ FileIdle /\ SaveIdle /\ NsIdle /\ NameIdle /\ GetIdle /\ TxIdle /\ AliasIdle
        /\ WalkIdle /\ ColIdle /\ JoinIdle /\ MmIdle

SpecRound == InitRound /\ [][RoundNext]_vars

InitTx ==
    TxInit /\ SetIdle /\ DnfIdle /\ LimIdle /\ QIdle /\ SelIdle /\ BulkIdle
        /\ FileIdle /\ SaveIdle /\ NsIdle /\ NameIdle /\ GetIdle /\ RoundIdle /\ AliasIdle
        /\ WalkIdle /\ ColIdle /\ JoinIdle /\ MmIdle

SpecTx == InitTx /\ [][TxNext]_vars

InitAlias ==
    AliasInit /\ SetIdle /\ DnfIdle /\ LimIdle /\ QIdle /\ SelIdle /\ BulkIdle
        /\ FileIdle /\ SaveIdle /\ NsIdle /\ NameIdle /\ GetIdle /\ RoundIdle /\ TxIdle
        /\ WalkIdle /\ ColIdle /\ JoinIdle /\ MmIdle

SpecAlias == InitAlias /\ [][AliasNext]_vars

InitWalk ==
    WalkInit /\ SetIdle /\ DnfIdle /\ LimIdle /\ QIdle /\ SelIdle /\ BulkIdle
        /\ FileIdle /\ SaveIdle /\ NsIdle /\ NameIdle /\ GetIdle /\ RoundIdle /\ TxIdle
        /\ AliasIdle /\ ColIdle /\ JoinIdle /\ MmIdle

SpecWalk == InitWalk /\ [][WalkNext]_vars

\* list_datasets runs to its end once called.
FairWalk == InitWalk /\ [][WalkNext]_vars /\ WF_vars(WalkNext)

InitCol ==
    ColInit /\ SetIdle /\ DnfIdle /\ LimIdle /\ QIdle /\ SelIdle /\ BulkIdle
        /\ FileIdle /\ SaveIdle /\ NsIdle /\ NameIdle /\ GetIdle /\ RoundIdle /\ TxIdle
        /\ AliasIdle /\ WalkIdle /\ JoinIdle /\ MmIdle

SpecCol == InitCol /\ [][ColNext]_vars

InitJoin ==
    JoinInit /\ SetIdle /\ DnfIdle /\ LimIdle /\ QIdle /\ SelIdle /\ BulkIdle
        /\ FileIdle /\ SaveIdle /\ NsIdle /\ NameIdle /\ GetIdle /\ RoundIdle /\ TxIdle
        /\ AliasIdle /\ WalkIdle /\ ColIdle /\ MmIdle

SpecJoin == InitJoin /\ [][JoinNext]_vars

InitAssoc ==
    MmInit /\ SetIdle /\ DnfIdle /\ LimIdle /\ QIdle /\ SelIdle /\ BulkIdle
        /\ FileIdle /\ SaveIdle /\ NsIdle /\ NameIdle /\ GetIdle /\ RoundIdle /\ TxIdle
        /\ AliasIdle /\ WalkIdle /\ ColIdle /\ JoinIdle

SpecAssoc == InitAssoc /\ [][MmNext]_vars

(***************************************************************************)
(* Claims about the set algebra.                                           *)
(***************************************************************************)
\* The elements of s at the positions in P, in the order of s.
AtPositions(s, P) ==
    [r \in 1..Cardinality(P) |->
        s[CHOOSE p \in P : Cardinality({q \in P : q <= p}) = r]]

\* The operands read in order, first operand first, as one sequence.
RECURSIVE ReadInOrder(_, _)
ReadInOrder(sets, k) ==
    IF k > Len(sets) THEN <<>> ELSE sets[k].Files \o ReadInOrder(sets, k + 1)

\* C8: union yields each distinct file ID exactly once, as the file object
\* seen first when the operands are read in order, ordered by first occurrence.
C8_UnionFirstSeen ==
    set_op = "union" =>
        LET cat == ReadInOrder(file_sets, 1)
            firsts == {p \in DOMAIN cat :
                          \A q \in 1..(p - 1) : cat[q].FID # cat[p].FID}
        IN  set_out = AtPositions(cat, firsts)

\* C8 witness: union([{f1,f2},{f2,f3}]) has yielded [f1,f2,f3].
C8_Witness ==
    /\ set_op = "union"
    /\ Len(file_sets) = 2
    /\ Len(file_sets[1].Files) = 2 /\ Len(file_sets[2].Files) = 2
    /\ [i \in 1..2 |-> file_sets[1].Files[i].FID] = <<"f1", "f2">>
    /\ [i \in 1..2 |-> file_sets[2].Files[i].FID] = <<"f2", "f3">>
    /\ set_out = <<FileObj("f1", 1, 1), FileObj("f2", 1, 2), FileObj("f3", 2, 2)>>

\* C9: left.subtract(right) yields exactly the files of left whose ID does
\* not occur in right, in left's order.
C9_SubtractLeftMinusRight ==
    set_op = "subtract" =>
        LET left == file_sets[1].Files
            right == file_sets[2].Files
        IN  set_out = AtPositions(left,
                {p \in DOMAIN left : \A q \in DOMAIN right : right[q].FID # left[p].FID})

\* C9 witness: a subtraction that removed a file of left and kept another.
C9_Witness ==
    /\ set_op = "subtract"
    /\ Len(file_sets[1].Files) = 2
    /\ Len(set_out) = 1
    /\ set_out[1] = file_sets[1].Files[2]
    /\ file_sets[1].Files[1].FID \in FIDs(file_sets[2].Files)

\* C10: join yields exactly the files of the first operand whose ID occurs in
\* every other operand, in the first operand's order; one operand is returned
\* unchanged.
C10_JoinIntersection ==
    set_op = "join" =>
        LET first == file_sets[1].Files
        IN  /\ set_out = AtPositions(first,
                   {p \in DOMAIN first :
                       \A k \in 2..Len(file_sets) : first[p].FID \in FIDs(file_sets[k].Files)})
            /\ Len(file_sets) = 1 => set_out = first

\* C10 witness: a three-way join that kept one file of the first operand and
\* dropped one that only the third operand lacks.
C10_Witness ==
    /\ set_op = "join"
    /\ Len(file_sets) = 3
    /\ Len(file_sets[1].Files) = 2
    /\ Len(set_out) = 1
    /\ \E p \in 1..2 :
          /\ file_sets[1].Files[p].FID \in FIDs(file_sets[2].Files)
          /\ file_sets[1].Files[p].FID \notin FIDs(file_sets[3].Files)

(***************************************************************************)
(* Claims about the DNF compiler.  A compiled term is judged by what it    *)
(* selects: Eval gives its SQL truth value ("T", "F", or "N" for null) on  *)
(* a file whose metadata holds the keys f.keys, the array under the        *)
(* term's key having f.alen elements.                                      *)
(***************************************************************************)
MaxArrayLen == 3

MetadataForms ==
    {"has_key", "path_match", "path_like_regex", "path_in_range", "path_not_in_range",
     "path_in_set", "path_not_in_set", "len_cmp", "len_between", "len_in"}

AttrName(e) == IF e.T \in {"present", "not_present"} THEN e.name ELSE e.arg.name

Not3(v) == CASE v = "T" -> "F" [] v = "F" -> "T" [] OTHER -> "N"

Bool3(b) == IF b THEN "T" ELSE "F"

RECURSIVE Nots(_, _)
Nots(k, v) == IF k = 0 THEN v ELSE Nots(k - 1, Not3(v))

EvalBase(t, f) ==
    CASE t.form = "true" -> "T"
      [] t.form = "false" -> "F"
      [] t.form = "has_key" -> Bool3(t.name \in f.keys)
      [] t.form = "len_between" ->
           IF t.name \notin f.keys THEN "N"
           ELSE Bool3((t.a.i <= f.alen /\ f.alen <= t.b.i) # t.n)
      [] t.form = "len_in" ->
           IF t.name \notin f.keys THEN "N"
           ELSE Bool3((\E k \in DOMAIN t.vals : t.vals[k].i = f.alen) # t.n)
      [] OTHER -> "N"

Eval(t, f) == Nots(t.nots, EvalBase(t, f))

EvalFiles == [keys : SUBSET ANames, alen : 0..MaxArrayLen]

\* C1: a predicate on a name without '.' that is no fixed column compiles,
\* without failing, to a test on the metadata key of that name; run == 4242
\* compiles to metadata @@ '$."run" == 4242'.
C1_JsonKeyCompiles ==
    (dnf_pc \notin {"input", "idle"}
        /\ ~HasDot(AttrName(exp)) /\ AttrName(exp) \notin ColumnAttributes) =>
        /\ dnf_pc = "ok"
        /\ parts[1].form \in MetadataForms
        /\ parts[1].name = AttrName(exp)
        /\ (exp.T = "cmp_op" /\ exp.arg.T = "scalar" /\ ~exp.neg
              /\ exp.op = "==" /\ exp.value = IntLit(4242)) =>
              parts[1] = [NoTerm EXCEPT !.form = "path_match", !.name = <<"run">>,
                                        !.op = "==", !.a = json_literal(IntLit(4242))]

\* C3: on a metadata key, present compiles to the key-existence test and
\* not_present to its negation, so on every file exactly one of the two is
\* true; on a fixed column they are the constants true and false.
C3_PresentNotPresent ==
    (dnf_pc = "ok" /\ exp.T \in {"present", "not_present"}) =>
        LET pres == exp.T = "present"
            other == SqlTerm([exp EXCEPT !.T = IF pres THEN "not_present" ELSE "present"],
                             asserts).term
        IN  IF exp.name \in ColumnAttributes
            THEN parts[1] = [NoTerm EXCEPT !.form = IF pres THEN "true" ELSE "false"]
            ELSE /\ parts[1] = [NoTerm EXCEPT !.form = "has_key", !.name = exp.name,
                                             !.nots = IF pres THEN 0 ELSE 1]
                 /\ \A f \in EvalFiles :
                       /\ (Eval(parts[1], f) = "T") <=> (pres <=> exp.name \in f.keys)
                       /\ (Eval(parts[1], f) = "T") # (Eval(other, f) = "T")

\* Whether a file whose array has L elements is to be selected by e.
LengthSelected(e, L) ==
    LET member == IF e.T \in {"in_range", "not_in_range"}
                  THEN e.low.i <= L /\ L <= e.high.i
                  ELSE \E k \in DOMAIN e.set : e.set[k].i = L
        positive == e.T \in {"in_range", "in_set"}
    IN  (member <=> positive) # e.neg

\* C4: on an array_length argument the negation is absorbed and double
\* negations cancel: the compiled term is true exactly on the lengths the
\* predicate selects, and a negated in_range is "not between" with no outer not.
C4_ArrayLengthNegation ==
    (dnf_pc = "ok" /\ exp.T \in {"in_range", "not_in_range", "in_set", "not_in_set"}
        /\ exp.arg.T = "array_length" /\ HasDot(exp.arg.name)) =>
        /\ \A L \in 0..MaxArrayLen :
              (Eval(parts[1], [keys |-> {exp.arg.name}, alen |-> L]) = "T")
                  <=> LengthSelected(exp, L)
        /\ (exp.T = "in_range" /\ exp.neg) =>
              (parts[1].form = "len_between" /\ parts[1].n /\ parts[1].nots = 0)

\* The part of C4 the compiler gets right: the range operators and in_set.
C4_RangesAndInSet ==
    (dnf_pc = "ok" /\ exp.T \in {"in_range", "not_in_range", "in_set"}
        /\ exp.arg.T = "array_length" /\ HasDot(exp.arg.name)) =>
        \A L \in 0..MaxArrayLen :
            (Eval(parts[1], [keys |-> {exp.arg.name}, alen |-> L]) = "T")
                <=> LengthSelected(exp, L)

(***************************************************************************)
(* Claims about limits.                                                    *)
(***************************************************************************)
\* C7: with limit 0 every listing path is empty and fetches nothing: reading
\* DBFileSet.limit(0) pulls no element from the underlying sequence, and
\* list_files(limit=0) yields no files.
C7_LimitZeroFetchesNothing ==
    /\ (gen # <<>> /\ fileset.Limit = Some(0)) =>
          (gen[1].pulled = 0 /\ gen[1].out = <<>>)
    /\ (lf.pc = "done" /\ lf.limit = Some(0)) => lf.out = <<>>

\* The part of C7 that holds: reading a set limited to 0 yields no file.
C7_LimitZeroYieldsNothing ==
    (gen # <<>> /\ fileset.Limit = Some(0)) => gen[1].out = <<>>

(***************************************************************************)
(* Claims about the planner.                                               *)
(***************************************************************************)
\* No expression, or an OR with zero AND-terms.
EmptyExp(e) == e.none \/ Len(e.C) = 0

\* C2: an empty DNF compiles to null and every query that embeds it has no
\* WHERE clause and does not fail: the file filter of sql_for_basic_query
\* and the having filter of sql_for_selector.
C2_EmptyDnfNoWhere ==
    /\ (sqlq # <<>> /\ EmptyExp(bq.Wheres) /\ EmptyExp(bq.DatasetSelector.Having)) =>
          /\ sqlq[1].err = ""
          /\ ~sqlq[1].sql.where.kw
          /\ \A k \in DOMAIN sqlq[1].sql.selected_datasets :
                ~sqlq[1].sql.selected_datasets[k].where.kw
    /\ (sqlsel # <<>> /\ EmptyExp(bq.DatasetSelector.Having)) =>
          /\ sqlsel[1].err = ""
          /\ ~sqlsel[1].sql.where.kw

\* The part of C2 that holds: the file filter of a query without a selector.
C2_FileFilterNoWhere ==
    (sqlq # <<>> /\ EmptyExp(bq.Wheres) /\ bq.DatasetSelector.none) =>
        (sqlq[1].err = "" /\ ~sqlq[1].sql.where.kw)

\* C6: from_basic_query returns a file set in every case: no datasets, the
\* empty set without a file query; one dataset, that dataset's list_files;
\* several, the combined path; no selector, a scan of the files table.
C6_DispatchOnDatasets ==
    fq # <<>> =>
        /\ fq[1].err = ""
        /\ fq[1].path = (CASE bq.DatasetSelector.none -> "all_files"
                           [] ~bq.DatasetSelector.none /\ fq[1].yielded = 0 -> "empty"
                           [] ~bq.DatasetSelector.none /\ fq[1].yielded = 1 -> "list_files"
                           [] OTHER -> "union")
        /\ fq[1].path = "empty" => (fq[1].out = <<>> /\ fq[1].executes = 0)

\* The part of C6 that holds: a selector that yields no dataset.
C6_NoDatasetsEmpty ==
    (fq # <<>> /\ ~bq.DatasetSelector.none /\ fq[1].yielded = 0) =>
        (fq[1].err = "" /\ fq[1].path = "empty" /\ fq[1].out = <<>> /\ fq[1].executes = 0)

(***************************************************************************)
(* Claims about the dataset selector.                                      *)
(***************************************************************************)
\* The datasets of the table a pattern selects.
Matched(table, pattern) ==
    {<<d.namespace, d.name>> : d \in
        {d \in table : /\ d.namespace = pattern.namespace
                       /\ IF pattern.wildcard THEN Like(d.name, pattern.name)
                          ELSE d.name = pattern.name}}

IsChild(table, c, p) ==
    \E d \in table : /\ <<d.namespace, d.name>> = c
                     /\ d.has_parent /\ <<d.parent_namespace, d.parent_name>> = p

\* The datasets reached from X by one or more parent-to-child steps, by
\* paths of at most n steps.
RECURSIVE Reached(_, _, _)
Reached(table, X, n) ==
    IF n = 0 THEN {}
    ELSE LET kids == {<<d.namespace, d.name>> : d \in
                         {d \in table : \E p \in X : IsChild(table, <<d.namespace, d.name>>, p)}}
         IN  kids \cup Reached(table, kids, n - 1)

\* What the selector is to yield with with_children=true.
WithChildrenExpected(table, sel) ==
    LET m == Matched(table, sel.Patterns[1])
    IN  m \cup Reached(table, m, IF sel.Recursively THEN Cardinality(table) ELSE 1)

\* C5: with with_children=true the selector yields, of the datasets stored,
\* the matched ones plus all their transitive descendants when recursively,
\* and plus exactly their direct children when not.
C5_WithChildren ==
    (sel_pc \in {"list_datasets", "sql_for_selector"} /\ dsel.WithChildren) =>
        Keys(selected) \cap Keys(datasets) = WithChildrenExpected(datasets, dsel)

\* The part of C5 that holds: list_datasets.
C5_ListDatasets ==
    (sel_pc = "list_datasets" /\ dsel.WithChildren) =>
        Keys(selected) = WithChildrenExpected(datasets, dsel)

\* The part of C5 that holds of sql_for_selector: wildcard patterns.
C5_SqlWildcard ==
    (sel_pc = "sql_for_selector" /\ dsel.WithChildren
        /\ dsel.Patterns[1].wildcard) =>
        Keys(selected) = WithChildrenExpected(datasets, dsel)

\* The example of C5: r <- a_ <- ab <- c, selected from r.
C5_Example ==
    /\ sel_pc = "list_datasets"
    /\ dsel.WithChildren /\ ~dsel.Recursively
    /\ dsel.Patterns[1].name = <<"r">>
    /\ datasets = {Dataset("n", <<"r">>, FALSE, "", NoName),
                   Dataset("n", <<"a", "_">>, TRUE, "n", <<"r">>),
                   Dataset("n", <<"a", "b">>, TRUE, "n", <<"a", "_">>),
                   Dataset("n", <<"c">>, TRUE, "n", <<"a", "b">>)}
    /\ Keys(selected) = {<<"n", <<"r">>>>, <<"n", <<"a", "_">>>>}

(***************************************************************************)
(* Claims about bulk insert.                                               *)
(***************************************************************************)
\* C11: whatever the kind of input, at most copy_threshold rows are written
\* by row inserts, more by the bulk copy, and in both cases every input row
\* is written once, in input order (when the store accepts the rows).
C11_PathBySize ==
    (ib_pc = "done" /\ ib.err # "StoreError") =>
        /\ ib.err = ""
        /\ ib.written = tuples.rows
        /\ ib.path = IF Len(tuples.rows) <= copy_threshold THEN "executemany"
                     ELSE "copy_from"

\* The part of C11 that holds: a one-shot iterator and a positive threshold.
C11_Iterators ==
    (ib_pc = "done" /\ ib.err # "StoreError" /\ tuples.kind = "iterator"
        /\ copy_threshold > 0) =>
        /\ ib.err = ""
        /\ ib.written = tuples.rows
        /\ ib.path = IF Len(tuples.rows) <= copy_threshold THEN "executemany"
                     ELSE "copy_from"

\* The part of C11 that holds: a list or tuple of at most copy_threshold rows.
C11_ShortLists ==
    (ib_pc = "done" /\ ib.err # "StoreError" /\ tuples.kind # "iterator"
        /\ Len(tuples.rows) <= copy_threshold) =>
        ib.err = "" /\ ib.written = tuples.rows /\ ib.path = "executemany"

\* A list of copy_threshold + 1 rows: insert_bulk iterates over None.
C11_LongList ==
    (ib_pc = "done" /\ tuples.kind = "list"
        /\ Len(tuples.rows) = copy_threshold + 1) => ib.err = "TypeError"

(***************************************************************************)
(* Claims about the files and parent_child tables.                         *)
(***************************************************************************)
FileKeys(store) == {f.id : f \in store.files}

\* C12: creating a file whose id or (namespace, name) is already stored fails
\* with AlreadyExists, in create and in create_many, and leaves the stored
\* files as they were committed.
C12_AlreadyExists ==
    (fop.name \in {"create", "create_many"} /\ fop.existed /\ fop.err # "StoreError") =>
        fop.err = "AlreadyExistsError" /\ db = committed

\* The part of C12 that holds: DBFile.create.
C12_Create ==
    (fop.name = "create" /\ fop.existed /\ fop.err # "StoreError") =>
        fop.err = "AlreadyExistsError" /\ db = committed

\* C13: a create_many that fails ends rolled back: nothing of it is committed
\* and the tables are as last committed, so no file and no edge of the batch
\* was written; one that succeeds has written every file and every edge of
\* the batch.
C13_CreateManyAtomic ==
    [][(fop'.name = "create_many" /\ nops' = nops + 1) =>
           IF fop'.err # ""
           THEN committed' = committed /\ db' = committed
           ELSE fop'.ids \subseteq FileKeys(db') /\ fop'.edges \subseteq db'.edges]_vars

\* A create_many of new files that failed while it wrote the edges.
C13_Witness ==
    /\ fop.name = "create_many"
    /\ fop.err = "IntegrityError"
    /\ ~fop.existed
    /\ db.edges # {}

\* C14: add_child called twice leaves parent_child as after the first call,
\* and the second call does not fail.
C14_AddChildIdempotent ==
    [][(fop'.name = "add_child" /\ fop'.rep /\ nops' = nops + 1) =>
           (db'.edges = db.edges /\ fop'.err = "")]_vars

\* A second, identical add_child has run.
C14_Witness ==
    fop.name = "add_child" /\ fop.rep /\ fop.edges \subseteq db.edges

\* C15: every edge of parent_child has both endpoints in files.
C15_EdgesHaveEndpoints ==
    \A e \in db.edges : e[1] \in FileKeys(db) /\ e[2] \in FileKeys(db)

(***************************************************************************)
(* Claims about DBDataset.save.                                            *)
(***************************************************************************)
DatasetKeys(table) == {<<d.namespace, d.name>> : d \in table}

ParentsExist(table) ==
    \A d \in table :
        d.has_parent => <<d.parent_namespace, d.parent_name>> \in DatasetKeys(table)

\* No dataset is among its own descendants.
Acyclic(table) ==
    \A k \in DatasetKeys(table) : k \notin Reached(table, {k}, Cardinality(table))

\* C16: after any saves every parent reference is to a stored dataset and
\* the parent/child graph has no cycle (a save that would make a cycle is
\* rejected and changes nothing).
C16_ParentsExistNoCycle ==
    ParentsExist(dstore.db) /\ Acyclic(dstore.db)

C17_NeitherIsRejected ==
    (ns_res.op \in {"save", "create"} /\ ns_obj[1].OwnerUser = None
        /\ ns_obj[1].OwnerRole = None) => ns_res.err = "IntegrityError"

\* C18: owned_by_user(user, directly) is true exactly when owner_user is the
\* user, or directly is false and the user is a member of owner_role,
\* whatever the user's admin flag.
C18_OwnedByUser ==
    ns_res.op = "owned_by_user" =>
        (ns_res.result <=>
            \/ ns_obj[1].OwnerUser = Some(ns_res.user.Username)
            \/ /\ ~ns_res.directly
               /\ ns_obj[1].OwnerRole # None
               /\ <<ns_res.user.Username, ns_obj[1].OwnerRole[1]>> \in users_roles)

\* An admin who is a member of the owner role asked directly: not an owner.
C18_Witness ==
    /\ ns_res.op = "owned_by_user"
    /\ ns_res.user.admin /\ ns_res.directly /\ ~ns_res.result
    /\ ns_obj[1].OwnerRole # None
    /\ <<ns_res.user.Username, ns_obj[1].OwnerRole[1]>> \in users_roles

(***************************************************************************)
(* Claims about parse_name.                                                *)
(***************************************************************************)
HasColon(s) == \E i \in DOMAIN s : s[i] = ":"

FirstColon(s) == CHOOSE i \in DOMAIN s : s[i] = ":" /\ \A j \in 1..(i - 1) : s[j] # ":"

\* The characters before the first ":" and those after it.
LeftOf(s) == SubSeq(s, 1, FirstColon(s) - 1)

RightOf(s) == SubSeq(s, FirstColon(s) + 1, Len(s))

\* What parse_name is to do with (name, default_namespace).
ParseNameExpected(name, d) ==
    IF HasColon(name) /\ LeftOf(name) # <<>>
    THEN Parsed(Some(LeftOf(name)), RightOf(name))
    ELSE IF d # None /\ d[1] # <<>>
    THEN Parsed(d, IF HasColon(name) THEN RightOf(name) ELSE name)
    ELSE Raised("InvalidName")

\* r is what is expected: the expected names, or a failure of any kind.
AsExpected(r, e) == IF e.err # "" THEN r.err # "" ELSE r = e

\* C19: both parse_name split at the first ":" when its left side is not
\* empty; with an empty left side or no ":" they return (default_namespace,
\* name part) when default_namespace is not empty and fail when it is
\* (python run with its assertions on).
C19_ParseName ==
    (pn_out # <<>> /\ pn_out[1].asserting) =>
        AsExpected(pn_out[1].r, ParseNameExpected(pn_in.name, pn_in.default_namespace))

\* The part of C19 that holds: dbobjects2.parse_name with assertions on.
C19_DbObjects ==
    (pn_out # <<>> /\ pn_out[1].impl = "dbobjects2" /\ pn_out[1].asserting) =>
        AsExpected(pn_out[1].r, ParseNameExpected(pn_in.name, pn_in.default_namespace))

\* The part of C19 that holds of common.parse_name: a name with a ":".
C19_CommonWithColon ==
    (pn_out # <<>> /\ pn_out[1].impl = "common" /\ pn_out[1].asserting
        /\ HasColon(pn_in.name)) =>
        AsExpected(pn_out[1].r, ParseNameExpected(pn_in.name, pn_in.default_namespace))

\* common.parse_name of a name without ":" raises, whatever the default.
C19_CommonNoColon ==
    (pn_out # <<>> /\ pn_out[1].impl = "common" /\ pn_out[1].asserting
        /\ ~HasColon(pn_in.name) /\ pn_in.name # <<>>) =>
        pn_out[1].r.err = "AssertionError"

(***************************************************************************)
(* Claims about the lookups.                                               *)
(***************************************************************************)
\* A lookup has run and no record with its key exists.
LookedUpAbsent == get_res # <<>> /\ get_res[1].key \notin records[get_res[1].kind]

\* C20: a lookup (get of a file, dataset, namespace, user, role, named
\* query, or the generic DBObject.get) of a key that no record has returns
\* None and raises nothing.
C20_AbsentIsNone == LookedUpAbsent => get_res[1].r = Returned(None)

\* The part of C20 that holds: every lookup but the named query's.
C20_OtherLookups ==
    (LookedUpAbsent /\ get_res[1].kind # "query") => get_res[1].r = Returned(None)

\* DBNamedQuery.get of a name no query has raises TypeError.
C20_NamedQueryRaises ==
    (LookedUpAbsent /\ get_res[1].kind = "query") => get_res[1].r = GetRaised("TypeError")

\* A lookup of a key that a record has returns the object of that record.
C20_PresentIsFound ==
    (get_res # <<>> /\ ~LookedUpAbsent) =>
        get_res[1].r = Returned(Some([kind |-> get_res[1].kind, key |-> get_res[1].key]))

(***************************************************************************)
(* Claims about the dataset round trip.                                    *)
(***************************************************************************)
\* A dataset was saved and then read back by its key.
RoundTripped == rt.pc = "got" /\ rt.got # None

\* C21: after d.save(), whether the key is new or already stored,
\* DBDataset.get(d.namespace, d.name) returns a record with the plain form
\* (to_jsonable) of d.
C21_SaveThenGet ==
    rt.pc = "got" => (rt.got # None /\ to_jsonable(rt.got[1]) = to_jsonable(rt.d[1]))

\* The part of C21 that holds: the round trip of a key that was not stored.
C21_NewKey ==
    (rt.pc = "got" /\ ~rt.existed) =>
        (rt.got # None /\ to_jsonable(rt.got[1]) = to_jsonable(rt.d[1]))

\* On a stored key the round trip keeps all of the plain form but the
\* creator and the timestamp.
C21_StoredKey ==
    RoundTripped =>
        [to_jsonable(rt.got[1]) EXCEPT !.creator = None, !.created_timestamp = None]
            = [to_jsonable(rt.d[1]) EXCEPT !.creator = None, !.created_timestamp = None]

(***************************************************************************)
(* Claims about who commits.                                               *)
(***************************************************************************)
Issues(stmt) == \E i \in DOMAIN tx_op.r.stmts : tx_op.r.stmts[i] = stmt

WriteOps == {"DBNamespace.save", "DBNamedQuery.save", "transactioned"}

\* C22: a write operation issues no commit when it takes part in the
\* transaction of its caller (transaction given, do_commit = False); when it
\* opens the transaction itself it commits on success and rolls back on
\* failure.
C22_CommitOnlyOwnTransaction ==
    tx_op.name \in WriteOps =>
        /\ tx_op.outer => ~Issues("commit")
        /\ (~tx_op.outer /\ tx_op.r.err = "") => (Issues("commit") /\ tx_committed = tx_db)
        /\ (~tx_op.outer /\ tx_op.r.err # "") => Issues("rollback")

\* The part of C22 that holds: an operation that succeeds on its own leaves
\* nothing uncommitted.
C22_OwnSuccessCommits ==
    (tx_op.name \in WriteOps /\ ~tx_op.outer /\ tx_op.r.err = "") =>
        (Issues("commit") /\ tx_committed = tx_db)

\* DBNamespace.save commits what it wrote whatever do_commit is.
C22_NamespaceSaveCommits ==
    (tx_op.name = "DBNamespace.save" /\ tx_op.r.err = "") =>
        (Issues("commit") /\ tx_committed = tx_db)

\* A method wrapped by transactioned commits nothing in the transaction of
\* its caller.
C22_TransactionedTakesPart ==
    (tx_op.name = "transactioned" /\ tx_op.outer) => ~Issues("commit")

(***************************************************************************)
(* Claims about alias.                                                     *)
(***************************************************************************)
\* C23: no two calls of alias(prefix) return the same alias, also when the
\* calls of two threads interleave between the read and the write of the
\* counter.
C23_AliasesUnique ==
    \A a, b \in al_ret : a.alias = b.alias => a = b

\* The part of C23 that holds: calls that one thread makes while the other
\* makes none return different aliases.
C23_OneThreadUnique ==
    (\E t \in Threads : al_pc[t].calls = 0) => \A a, b \in al_ret : a.alias = b.alias => a = b

\* Two threads that have both read the counter of one prefix before either
\* wrote it hold the same number.
C23_SameRead ==
    \A t, u \in Threads :
        (t # u /\ al_pc[t].at = "read" /\ al_pc[u].at = "read"
            /\ al_pc[t].prefix = al_pc[u].prefix /\ al_pc[t].calls = 1 /\ al_pc[u].calls = 1)
        => al_pc[t].i = al_pc[u].i

(***************************************************************************)
(* Claims about the walk of list_datasets.                                 *)
(***************************************************************************)
\* The datasets of the table that are their own ancestors.
OnCycle(table) ==
    {d \in table : d.has_parent /\
        \E e \in table : /\ <<e.namespace, e.name>> = <<d.parent_namespace, d.parent_name>>
                         /\ (e = d \/ (e.has_parent /\ <<e.parent_namespace, e.parent_name>>
                                                       = <<d.namespace, d.name>>))}

C24_SameAsListDatasets ==
    wk.at = "return" =>
        wk.datasets = list_datasets(wk_in.table, <<wk_in.pattern>>,
                                    wk_in.with_children, wk_in.recursively)

(***************************************************************************)
(* Claims about the selected columns.                                      *)
(***************************************************************************)
\* The record field of each column.
FieldOf ==
    [id |-> "FID", namespace |-> "Namespace", name |-> "Name", metadata |-> "Metadata",
     creator |-> "Creator", created_timestamp |-> "CreatedTimestamp", size |-> "Size",
     checksums |-> "Checksums", parents |-> "Parents", children |-> "Children"]

\* The columns the query returns: all but those its flags replace by null.
IsReturned(c) ==
    /\ c = "metadata" => col_in.with_meta
    /\ c \in {"parents", "children"} => (col_in.with_provenance /\ col_in.builder # "get")

Decoded == col_in.builder # "" /\ col_out # <<>>

\* C25: every file query selects its columns in the order and number that
\* DBFile.from_tuple decodes, whatever the flags: each column returned lands
\* in the record field of its name.
C25_ColumnsLand ==
    Decoded =>
        \A c \in {"id", "namespace", "name", "metadata", "size", "checksums",
                  "parents", "children"} :
            col_out[1][FieldOf[c]] = IF IsReturned(c) THEN col_in.row[c] ELSE None

\* The part of C25 that holds: all queries but that of sql_for_file_list.
C25_OtherBuilders ==
    (Decoded /\ col_in.builder # "sql_for_file_list") =>
        \A c \in {"id", "namespace", "name", "metadata", "size", "checksums",
                  "parents", "children"} :
            col_out[1][FieldOf[c]] = IF IsReturned(c) THEN col_in.row[c] ELSE None

\* What sql_for_file_list does: the record's Size is the creator column and
\* its Parents the size column.
C25_FileListShifted ==
    (Decoded /\ col_in.builder = "sql_for_file_list") =>
        /\ col_out[1].Size = col_in.row["creator"]
        /\ col_out[1].Checksums = col_in.row["created_timestamp"]
        /\ col_out[1].Parents = col_in.row["size"]
        /\ col_out[1].Children = col_in.row["checksums"]

(***************************************************************************)
(* Claims about the limit of a basic query.                                *)
(***************************************************************************)
\* The per-dataset listings of the first k datasets, each with limit lim,
\* combined by union.
UnionOfListings(k, lim) ==
    Iter(union([j \in 1..k |-> DBFileSet(list_files(DatasetRows(j), lim).out)]))

\* C26: a basic query with an effective limit L (the smaller of the limit
\* argument and the query's own limit, or the one that is set) returns a
\* file set of at most L files in total, also when its selector yields
\* several datasets.
C26_AtMostLimit ==
    (fq # <<>> /\ ~bq.DatasetSelector.none /\ fq[1].yielded >= 1 /\ fq[1].limit # None) =>
        (fq[1].err = "" /\ Len(fq[1].out) <= fq[1].limit[1])

\* What from_basic_query does with one dataset or more: it raises TypeError
\* and returns no file set.
C26_Raises ==
    (fq # <<>> /\ ~bq.DatasetSelector.none /\ fq[1].yielded >= 1) =>
        (fq[1].err = "TypeError" /\ fq[1].out = <<>>)

\* union puts no limit on what it combines: of two listings with limit 1 it
\* yields two files.
C26_UnionUnlimited ==
    fq # <<>> => Len(UnionOfListings(2, Some(1))) = 2

(***************************************************************************)
(* Claims about the rows of a basic query.                                 *)
(***************************************************************************)
\* C27: the query sql_for_basic_query builds for a selector returns each
\* matching file at most once, also a file that is in two or more of the
\* selected datasets.
C27_EachFileOnce ==
    (jn_out # <<>> /\ jn_in.query.joined) =>
        \A r, s \in jn_out[1] : r[1] = s[1] => r = s

\* The part of C27 that holds: a query without a selector returns each file
\* once.
C27_NoSelectorOnce ==
    (jn_out # <<>> /\ ~jn_in.query.joined) =>
        \A r, s \in jn_out[1] : r[1] = s[1] => r = s

\* A query with a selector returns a file once for each selected dataset
\* that holds it, up to the limit.
C27_OncePerDataset ==
    (jn_out # <<>> /\ jn_in.query.joined /\ jn_in.query.limit = None) =>
        \A f \in JoinFiles :
            Cardinality({r \in jn_out[1] : r[1] = f})
                = Cardinality({d \in jn_in.selected_datasets :
                                  <<f, d>> \in jn_in.files_datasets})

(***************************************************************************)
(* Claims about reading a limited file set.                                *)
(***************************************************************************)
\* C28: a limited file set is the same however it is read: for a file set
\* fs and n >= 0, fs.limit(n).as_list() is list(iter(fs.limit(n))), the
\* first min(n, size) files of fs in order.
C28_SameHoweverRead ==
    fileset.Limit # None =>
        /\ as_list(fileset) = Iter(fileset)
        /\ Iter(fileset) = Prefix(fileset.Files, fileset.Limit[1])

\* The part of C28 that holds: iterating yields the first min(n, size) files.
C28_IterIsPrefix ==
    fileset.Limit # None => Iter(fileset) = Prefix(fileset.Files, fileset.Limit[1])

\* as_list returns every file of the set, whatever the limit.
C28_AsListUnlimited ==
    fileset.Limit # None =>
        (Len(as_list(fileset)) = Len(fileset.Files) /\ as_list(limit(fileset, None)) = as_list(fileset))

(***************************************************************************)
(* Claims about the table a bulk insert writes.                            *)
(***************************************************************************)
\* C29: insert_bulk and insert_many write the rows into the table named by
\* their table argument, on the row-insert path and on the bulk-copy path
\* (when the store accepts the rows).
C29_WritesNamedTable ==
    (ib_pc \in {"done", "insert_many"} /\ ib.err # "StoreError"
        /\ (ib_pc = "done" => ib.err # "TypeError")) =>
        (ib.err = "" /\ ib.table = ib.arg /\ ib.written = tuples.rows)

\* The part of C29 that holds: the bulk-copy path of insert_bulk.
C29_CopyPath ==
    (ib_pc = "done" /\ ib.path = "copy_from" /\ ib.err = "") =>
        (ib.table = ib.arg /\ ib.written = tuples.rows)

\* The row-insert path of insert_bulk writes parent_child, whatever table
\* is named.
C29_RowPathParentChild ==
    (ib_pc = "done" /\ ib.path = "executemany") => ib.table = "parent_child"

\* insert_many raises NameError and writes nothing.
C29_InsertManyRaises ==
    ib_pc = "insert_many" => (ib.err = "NameError" /\ ib.written = <<>>)

(***************************************************************************)
(* Claims about the many-to-many associations.                             *)
(***************************************************************************)
\* Is v a member of the association the last operation worked on.
IsMember(v) == contains(mm_op.variant, mm_table, mm_op.key, <<v>>).ret

OtherRows(table) == table \ Where(table, mm_op.key)

\* What variant x does when given the call the last operation was.
SameCall(x) ==
    CASE mm_op.op = "add" -> add(x, mm_op.before, mm_op.key, mm_op.vals)
      [] mm_op.op = "contains" -> contains(x, mm_op.before, mm_op.key, mm_op.vals)
      [] mm_op.op = "remove" -> remove(x, mm_op.before, mm_op.key, mm_op.vals, FALSE)
      [] mm_op.op = "set" -> set(x, mm_op.before, mm_op.key, mm_op.vals)

\* The other variants would have done what the one called did.
VariantsAgree ==
    mm_op.op # "none" =>
        \A x \in M2MVariants : SameCall(x) = M2MResult(mm_table, mm_op.err, mm_op.ret)

AddedIsMember ==
    mm_op.op = "add" =>
        /\ mm_op.err = ""
        /\ IsMember(mm_op.vals[1])
        /\ add(mm_op.variant, mm_table, mm_op.key, mm_op.vals).table = mm_table
        /\ mm_table \ {<<mm_op.key, mm_op.vals[1]>>}
              = mm_op.before \ {<<mm_op.key, mm_op.vals[1]>>}

RemovedIsGone ==
    (mm_op.op = "remove" /\ <<mm_op.key, mm_op.vals[1]>> \in mm_op.before) =>
        /\ mm_op.err = ""
        /\ ~IsMember(mm_op.vals[1])
        /\ mm_table = mm_op.before \ {<<mm_op.key, mm_op.vals[1]>>}

SetIsExact ==
    mm_op.op = "set" =>
        /\ mm_op.err = ""
        /\ m2m_list(mm_table, mm_op.key) = Range(mm_op.vals)
        /\ OtherRows(mm_table) = OtherRows(mm_op.before)

\* C30: for one lookup field the three many-to-many variants behave the
\* same: after add(v), contains(v) is true; after a following remove(v),
\* contains(v) is false and the other members are unchanged; add(v) twice
\* equals once; after set(lst) the members are exactly those of lst.
C30_VariantsBehaveAlike ==
    VariantsAgree /\ AddedIsMember /\ RemovedIsGone /\ SetIsExact

\* C30, what holds: in every variant add makes v a member, adding again
\* changes nothing, and set leaves exactly the members of lst.
C30_AddAndSet == AddedIsMember /\ SetIsExact

\* C30, what holds: remove(v) of dbobjects2._DBManyToMany removes v only.
C30_RemoveDbobjects2 == mm_op.variant = "dbobjects2._DBManyToMany" => RemovedIsGone

\* C30, what holds: remove(v) of common._DBManyToMany and of
\* dbbase.DBManyToMany raises AttributeError and removes nothing.
C30_RemoveRaises ==
    (mm_op.op = "remove" /\ mm_op.variant # "dbobjects2._DBManyToMany") =>
        mm_op.err = "AttributeError" /\ mm_table = mm_op.before

\* C30, what holds: the variants agree on add, contains and set.
C30_AgreeButRemove == mm_op.op \in {"add", "contains", "set"} => VariantsAgree
====
